---- MODULE Spec2Model ----
(***************************************************************************)
(* Re-Centris: the collector's repo worker (tag walker), the batch         *)
(* processor that drives it, and the preprocessor's signature builder and  *)
(* component reducer.                                                      *)
(*                                                                         *)
(* Preprocessor part, src/src/preprocessor/Preprocessor_full.py and        *)
(* src/re-centris-python-new/preprocessor/Preprocessor_lite.py: the two    *)
(* implementations are told apart by the variable impl.                    *)
(*                                                                         *)
(* Collector part, src/osscollector/collector.py.  A worker is one call of *)
(* process_single_repo(repo_path, status_dict).  Its steps are cut where   *)
(* it touches state shared with other processes: the lock file             *)
(* .git/centris.lock, the result files fuzzy_<tag>.hidx, the manager's     *)
(* status dict and the file status.json.                                   *)
(***************************************************************************)
EXTENDS Integers, Sequences, FiniteSets, TLC

(***************************************************************************)
(* Bounds of the model.                                                    *)
(***************************************************************************)
MaxWorkers == 6
LockWorkers == 2
LockMaxTags == 2
ContendWorkers == 2
ContendMaxTags == 1
WalkWorkers == 1
WalkMaxTags == 5
PoolSize == 2
BatchMaxTags == 1

\* process_batch: for attempt in range(3)
MaxAttempts == 3

Workers == 1..MaxWorkers
RunIds == 1..MaxWorkers
Repos == {"x", "y"}

(***************************************************************************)
(* Tag names are character sequences, so that normalize_tag is modelled by *)
(* what it does.  TagName(1) = "r/1", TagName(2) = "r_1" (the two collide  *)
(* after normalisation), TagName(i) = "v1..1" for i > 2.                   *)
(***************************************************************************)
TagName(i) ==
    IF i = 1 THEN <<"r", "/", "1">>
    ELSE IF i = 2 THEN <<"r", "_", "1">>
    ELSE <<"v">> \o [j \in 1..(i - 2) |-> "1"]

TagList(n) == [i \in 1..n |-> TagName(i)]

normalize_tag(tag) == [i \in DOMAIN tag |-> IF tag[i] = "/" THEN "_" ELSE tag[i]]

\* fuzzy_<repo_name>.hidx: the default branch of a repo without tags
RepoNameTag(r) == <<"o", "%", r>>

(***************************************************************************)
(* State.                                                                  *)
(***************************************************************************)
VARIABLES
    repoKind,        \* per repo: "ok", "missing", "noC", "noGit" (what the pre-checks find)
    repoTags,        \* per repo: the list `git tag --list` returns
    lockFile,        \* per repo: .git/centris.lock exists
    hidx,            \* per repo: the normalised tags whose fuzzy_<tag>.hidx exists
    hidxWrites,      \* per repo: how many times indexing() has opened a result file for writing
    truncated,       \* per repo: the tags whose fuzzy_<tag>.hidx was left half written
    statusFile,      \* the content of status.json (a map repo -> entry), or Unreadable
    fileWriters,     \* the processes that have status.json open for writing
    status_dict,     \* per collector run: the manager's dict
    pc,              \* per worker: position in process_single_repo
    wrepo,           \* per worker: the repo it was called with
    wrun,            \* per worker: the collector run it belongs to
    ti,              \* per worker: index of the current tag (1-based)
    successful_tags, \* per worker: the local counter successful_tags
    upd,             \* per worker: the pending update_repo_status call and what follows it
    save_dict,       \* per worker: the snapshot dict(status_dict) taken in update_repo_status
    hist,            \* per worker: what it has done so far (history)
    mpc,             \* the main process: position in BatchProcessor.process_repos/process_batch
    repo_status,     \* BatchProcessor.repo_status
    batch_repos,     \* the repos of the batch (those not yet processed successfully)
    attempt,         \* process_batch: the loop variable of `for attempt in range(3)`
    processed_repos, \* process_batch: processed_repos
    failed_repos,    \* process_batch: failed_repos
    toSubmit,        \* the repos of remaining_repos not yet submitted in this attempt
    future_to_repo,  \* the futures (workers) submitted in this attempt
    collected,       \* the futures as_completed has yielded in this attempt
    poolBroken,      \* the executor of this attempt is broken
    sigint,          \* SIGINT has been delivered to the main process
    mhist,           \* history of the run: the state it started from, what SIGINT found
    impl,            \* the preprocessor that runs: "full" or "lite"
    tagIndex,        \* per repo: per tag (in version order) the fps of the data lines of its TagIndex
    tagDate,         \* per repo: per tag the date the repo_date file gives it, or Undated
    verNames,        \* per repo: the tag in the name of each file of result/<R>/, in the order
                     \*   of os.listdir; tagIndex[R][j] and tagDate[R][j] belong to verNames[R][j]
    private,         \* per repo: how many further fps each of its TagIndex files lists before those
                     \*   of tagIndex; no other repo ships them, none is near an fp of tagIndex
    near,            \* tlsh.diffxlen of the two fps of Fps is <= 30
    initialSigs,     \* per repo: initialSigs/<R>_sig, fp -> vers (private fps left out)
    funcDate,        \* per repo: funcDate/<R>_funcdate, fp -> birth date
    verIDX,          \* per repo: verIDX/<R>_idx, the list of its {"ver", "idx"} entries
    metaDone,        \* the repos whose meta information has been merged
    unique,          \* saveMetaInfos: the dict unique, fp -> list of repos
    aveFuncJson,     \* saveMetaInfos: the dict aveFuncJson
    uniqueFuncs,     \* the file meta/uniqueFuncs, fp -> OSS list
    aveFuncs,        \* the file meta/aveFuncs
    segmented,       \* the repos the reducer has gone through
    componentDB,     \* per repo: componentDB/<R>_sig, fp -> vers
    relpaths,        \* per repo: per fp of Fps the relpaths its TagIndex lines list after the fp
    inputDict,       \* detector: the target map as hashing built it, the list of its items
                     \*   <<fp, relpaths>> in dict order (the fps of Fps only)
    tpriv,           \* per repo: how many of its private fps the target has as well, each at
                     \*   the relpath the TagIndex lists for it
    unreadable,      \* per repo: one of the files its evaluation opens once the threshold is
                     \*   passed (idx, weights, sig, hidx) cannot be read or decoded
    dpc,             \* detector(): "none", "idle", "collect" (in the as_completed loop), "done"
    fstate,          \* per component: its future is "none", "pending", "done" or "collected"
    fresult,         \* per component: the value process_single_component returned
    resultFile,      \* result_<inputRepo>: the lines written
    exFuncs,         \* per collector process: per source file of the checked-out tree the hashes
                     \*   computeTlsh gives for its functions, in file order
    ident,           \* per collector process: threading.get_ident() of each thread of its pool
    hpc,             \* per collector process: hashing() is "none", "idle", "collect" or "done"
    task,            \* per collector process and file: the process_single_file call
    completed,       \* per collector process: the futures in the order they completed
    result_dict,     \* per collector process: result_dict of hashing
    func_count,      \* per collector process: func_count of hashing
    tempDirs,        \* the directories that exist under temp_path
    tempFiles,       \* the files under temp_path: <<directory, basename, whose content>>
    tagFile,         \* per collector process: the TagIndex file indexing wrote, or NotWritten
    max_size,        \* Cache.max_size
    persistent,      \* Cache.persistent
    cache,           \* Cache._cache, key -> value
    access_times,    \* Cache._access_times: its items <<key, time of the last access>> in dict order
    cache_files,     \* the files <md5 of key>.cache of cache_dir, key -> <<timestamp, value>>
    clock,           \* what time.time() returns
    pm_pc,           \* ParallelManager.process_items: "none", "idle", "collect", "returned"
    pm_items,        \* process_items: items
    pm_chunk_size,   \* process_items: chunk_size, 0 for None
    pm_use_threads,  \* process_items: use_threads
    pm_futures,      \* process_items: per chunk its future, "queued", "running", "done",
                     \*   "failed" (it holds an exception) or "yielded" (as_completed gave it)
    pm_failed,       \* process_items: a future.result() has raised
    pm_results       \* process_items: results

wvars == <<pc, wrepo, wrun, ti, successful_tags, upd, save_dict, hist>>
fsvars == <<lockFile, hidx, hidxWrites, statusFile, fileWriters>>
prevars == <<impl, tagIndex, tagDate, verNames, private, near, initialSigs, funcDate, verIDX, metaDone, unique,
             aveFuncJson, uniqueFuncs, aveFuncs, segmented, componentDB>>
detinput == <<relpaths, inputDict, tpriv, unreadable>>
detvars == <<detinput, dpc, fstate, fresult, resultFile>>
exvars == <<exFuncs, ident, hpc, task, completed, result_dict, func_count, tempDirs, tempFiles,
            tagFile>>
\* what no step of the collector outside hashing and indexing changes
cachevars == <<max_size, persistent, cache, access_times, cache_files, clock>>
pmvars == <<pm_pc, pm_items, pm_chunk_size, pm_use_threads, pm_futures, pm_failed, pm_results>>
corevars == <<cachevars, pmvars>>
envrest == <<repoKind, repoTags, corevars, prevars, detvars, exvars>>
envvars == <<envrest, truncated>>
collvars == <<envvars, fsvars, status_dict, wvars>>
mvars == <<mpc, repo_status, batch_repos, attempt, processed_repos, failed_repos, toSubmit,
           future_to_repo, collected, poolBroken, sigint, mhist>>
vars == <<collvars, mvars>>

\* status.json when it holds no JSON document: empty after open(.., 'w'), or garbled
Unreadable == [unreadable |-> TRUE]
\* a file that has not been written
NotWritten == [written |-> FALSE]
EmptyMap == [r \in {} |-> 0]
NoUpd == [success |-> FALSE, error |-> "null", next |-> "none", ret |-> FALSE]
NoHist == [checkedOut |-> {}, extracted |-> {}, wrote |-> {}, skipped |-> {},
           lockFailed |-> FALSE, returned |-> "none", entry |-> "none"]

Entry(success, error) == [success |-> success, error |-> error]

\* status_dict[repo_name] = {...}
DictSet(d, r, e) == [x \in (DOMAIN d) \cup {r} |-> IF x = r THEN e ELSE d[x]]

\* self.repo_status.update(dict(status_dict))
DictUpdate(d, e) == [x \in (DOMAIN d) \cup (DOMAIN e) |-> IF x \in DOMAIN e THEN e[x] ELSE d[x]]

Tags(w) == repoTags[wrepo[w]]
NoTags(w) == Len(Tags(w)) = 0
total_tags(w) == IF NoTags(w) THEN 1 ELSE Len(Tags(w))
CurTag(w) == IF NoTags(w) THEN RepoNameTag(wrepo[w]) ELSE Tags(w)[ti[w]]
expected_hidx_file(w) == IF NoTags(w) THEN RepoNameTag(wrepo[w]) ELSE normalize_tag(Tags(w)[ti[w]])

\* variant: the threshold taken as a strict bound
is_success_Strict(succ, total) == IF total > 0 THEN 10 * succ > 8 * total ELSE FALSE

\* success_rate = successful_tags / total_tags; is_success = success_rate >= 0.8
is_success(succ, total) == IF total > 0 THEN 10 * succ >= 8 * total ELSE FALSE

(***************************************************************************)
(* update_repo_status(status_dict, repo_name, success, error_msg), begun   *)
(* by a worker: the call is recorded and runs in the four steps below.     *)
(***************************************************************************)
CallUpdate(w, success, error, next, ret) ==
    /\ upd' = [upd EXCEPT ![w] = [success |-> success, error |-> error, next |-> next, ret |-> ret]]
    /\ pc' = [pc EXCEPT ![w] = "upd_set"]

\* return: the call's locals are gone, the future holds the result
Return(w, ret) ==
    /\ pc' = [pc EXCEPT ![w] = "done"]
    /\ hist' = [hist EXCEPT ![w].returned = IF ret THEN "true" ELSE "false"]
    /\ ti' = [ti EXCEPT ![w] = 1]
    /\ successful_tags' = [successful_tags EXCEPT ![w] = 0]
    /\ upd' = [upd EXCEPT ![w] = NoUpd]

(***************************************************************************)
(* process_single_repo, lines 1104-1128: the checks before the lock.       *)
(***************************************************************************)
WStart(w) ==
    /\ pc[w] = "start"
    /\ \/ /\ repoKind[wrepo[w]] = "missing"
          /\ CallUpdate(w, FALSE, "path_missing", "return", FALSE)
       \/ /\ repoKind[wrepo[w]] = "noC"
          /\ CallUpdate(w, TRUE, "not_c_project", "return", FALSE)
       \/ /\ repoKind[wrepo[w]] = "noGit"
          /\ CallUpdate(w, FALSE, "invalid_git", "return", FALSE)
       \/ /\ repoKind[wrepo[w]] = "ok"
          /\ pc' = [pc EXCEPT ![w] = "cleanup"]
          /\ upd' = upd
    /\ UNCHANGED <<mvars, envvars, fsvars, status_dict, wrepo, wrun, ti, successful_tags, save_dict, hist>>

(***************************************************************************)
(* Line 1134: cleanup_git_workspace(repo_path), called before the lock is  *)
(* taken.  pc = "cleanup" is the worker inside that call.                  *)
(***************************************************************************)
WCleanup(w) ==
    /\ pc[w] = "cleanup"
    /\ pc' = [pc EXCEPT ![w] = "lock"]
    /\ UNCHANGED <<mvars, envvars, fsvars, status_dict, wrepo, wrun, ti, successful_tags, upd, save_dict, hist>>

(***************************************************************************)
(* Line 1137: open(lock_file, 'x').  FileExistsError is raised inside the  *)
(* try whose finally (1265-1271) removes the lock file, so the handler at  *)
(* 1273 runs after that finally.                                           *)
(***************************************************************************)
WLock(w) ==
    /\ pc[w] = "lock"
    /\ \/ /\ ~lockFile[wrepo[w]]
          /\ lockFile' = [lockFile EXCEPT ![wrepo[w]] = TRUE]
          /\ pc' = [pc EXCEPT ![w] = "enter"]
          /\ hist' = hist
       \/ /\ lockFile[wrepo[w]]
          /\ lockFile' = lockFile
          /\ pc' = [pc EXCEPT ![w] = "fe_finally"]
          /\ hist' = [hist EXCEPT ![w].lockFailed = TRUE]
    /\ UNCHANGED <<mvars, envvars, hidx, hidxWrites, statusFile, fileWriters, status_dict,
                   wrepo, wrun, ti, successful_tags, upd, save_dict>>

\* variant: the finally clause leaves the lock file where it is
FinallyRemoveLock_Keep(w) == lockFile

\* the finally clause: if os.path.exists(lock_file): os.remove(lock_file)
FinallyRemoveLock(w) == [lockFile EXCEPT ![wrepo[w]] = FALSE]

\* variant: the FileExistsError handler returns without recording a status
WFeFinally_Unrecorded(w) ==
    /\ pc[w] = "fe_finally"
    /\ lockFile' = FinallyRemoveLock(w)
    /\ Return(w, FALSE)
    /\ UNCHANGED <<mvars, envvars, hidx, hidxWrites, statusFile, fileWriters, status_dict,
                   wrepo, wrun, save_dict>>

WFeFinally(w) ==
    /\ pc[w] = "fe_finally"
    /\ lockFile' = FinallyRemoveLock(w)
    /\ CallUpdate(w, FALSE, "being_processed", "return", FALSE)
    /\ UNCHANGED <<mvars, envvars, hidx, hidxWrites, statusFile, fileWriters, status_dict,
                   wrepo, wrun, ti, successful_tags, save_dict, hist>>

(***************************************************************************)
(* Lines 1138-1175 under the lock: chdir, the tag dates, get_repo_tags.    *)
(* os.chdir failing (1140) and the tag dates failing (1169) both record a  *)
(* failure and return False: "enter_failed".                               *)
(***************************************************************************)
WEnter(w) ==
    /\ pc[w] = "enter"
    /\ \/ /\ pc' = [pc EXCEPT ![w] = "tagcheck"]
          /\ ti' = [ti EXCEPT ![w] = 1]
          /\ successful_tags' = [successful_tags EXCEPT ![w] = 0]
          /\ upd' = upd
       \/ /\ CallUpdate(w, FALSE, "enter_failed", "finally", FALSE)
          /\ UNCHANGED <<ti, successful_tags>>
    /\ UNCHANGED <<mvars, envvars, fsvars, status_dict, wrepo, wrun, save_dict, hist>>

\* variant: the walker does not look for the result file of the tag
WTagCheck_NoSkip(w) ==
    /\ pc[w] = "tagcheck"
    /\ ti[w] <= total_tags(w)
    /\ pc' = [pc EXCEPT ![w] = IF NoTags(w) THEN "extract" ELSE "checkout"]
    /\ UNCHANGED <<mvars, envvars, fsvars, status_dict, wrepo, wrun, upd, save_dict,
                   successful_tags, ti, hist>>

(***************************************************************************)
(* Lines 1181-1187, 1215-1227: the result file of the current tag exists?  *)
(***************************************************************************)
WTagCheck(w) ==
    /\ pc[w] = "tagcheck"
    /\ ti[w] <= total_tags(w)
    /\ \/ /\ expected_hidx_file(w) \in hidx[wrepo[w]]
          /\ successful_tags' = [successful_tags EXCEPT ![w] = IF NoTags(w) THEN 1 ELSE @ + 1]
          /\ ti' = [ti EXCEPT ![w] = @ + 1]
          /\ hist' = [hist EXCEPT ![w].skipped = @ \cup {ti[w]}]
          /\ pc' = pc
       \/ /\ expected_hidx_file(w) \notin hidx[wrepo[w]]
          /\ pc' = [pc EXCEPT ![w] = IF NoTags(w) THEN "extract" ELSE "checkout"]
          /\ UNCHANGED <<successful_tags, ti, hist>>
    /\ UNCHANGED <<mvars, envvars, fsvars, status_dict, wrepo, wrun, upd, save_dict>>

(***************************************************************************)
(* Line 1230: cleanup_and_checkout_tag(repo_path, tag, repo_name).         *)
(***************************************************************************)
WCheckout(w) ==
    /\ pc[w] = "checkout"
    /\ hist' = [hist EXCEPT ![w].checkedOut = @ \cup {ti[w]}]
    /\ \/ /\ pc' = [pc EXCEPT ![w] = "extract"]
          /\ ti' = ti
       \/ /\ pc' = [pc EXCEPT ![w] = "tagcheck"]
          /\ ti' = [ti EXCEPT ![w] = @ + 1]
    /\ UNCHANGED <<mvars, envvars, fsvars, status_dict, wrepo, wrun, successful_tags, upd, save_dict>>

\* indexing(resDict, title, filePath): open(filePath, 'w') and write
indexing(h, r, file) == [h EXCEPT ![r] = @ \cup {file}]

(***************************************************************************)
(* Lines 1188-1193, 1235-1244: hashing(repo_path) over the working tree,   *)
(* and indexing() when the map is not empty.  An exception is caught per   *)
(* tag (1242), and escapes to the handler at 1278 for the default branch.  *)
(***************************************************************************)
WExtract(w) ==
    /\ pc[w] = "extract"
    /\ \/ /\ hidx' = indexing(hidx, wrepo[w], expected_hidx_file(w))
          /\ hidxWrites' = [hidxWrites EXCEPT ![wrepo[w]] = @ + 1]
          /\ truncated' = [truncated EXCEPT ![wrepo[w]] = @ \ {expected_hidx_file(w)}]
          /\ successful_tags' = [successful_tags EXCEPT ![w] = IF NoTags(w) THEN 1 ELSE @ + 1]
          /\ hist' = [hist EXCEPT ![w].extracted = @ \cup {ti[w]},
                                  ![w].wrote = @ \cup {ti[w]}]
          /\ pc' = [pc EXCEPT ![w] = "tagcheck"]
       \/ /\ UNCHANGED <<hidx, hidxWrites, truncated, successful_tags>>
          /\ hist' = [hist EXCEPT ![w].extracted = @ \cup {ti[w]}]
          /\ pc' = [pc EXCEPT ![w] = "tagcheck"]
       \/ /\ UNCHANGED <<hidx, hidxWrites, truncated, successful_tags>>
          /\ hist' = [hist EXCEPT ![w].extracted = @ \cup {ti[w]}]
          /\ pc' = [pc EXCEPT ![w] = IF NoTags(w) THEN "ex_finally" ELSE "tagcheck"]
    /\ ti' = [ti EXCEPT ![w] = @ + 1]
    /\ UNCHANGED <<mvars, envrest, lockFile, statusFile, fileWriters, status_dict, wrepo, wrun, upd, save_dict>>

\* an exception that leaves the with block: finally first, then the handler at 1278
WExFinally(w) ==
    /\ pc[w] = "ex_finally"
    /\ lockFile' = FinallyRemoveLock(w)
    /\ CallUpdate(w, FALSE, "exception", "return", FALSE)
    /\ UNCHANGED <<mvars, envvars, hidx, hidxWrites, statusFile, fileWriters, status_dict,
                   wrepo, wrun, ti, successful_tags, save_dict, hist>>

(***************************************************************************)
(* Lines 1246-1263: the success rate, the status update, return.           *)
(***************************************************************************)
WFinish(w) ==
    /\ pc[w] = "tagcheck"
    /\ ti[w] > total_tags(w)
    /\ LET ok == is_success(successful_tags[w], total_tags(w))
       IN CallUpdate(w, ok, IF ok THEN "null" ELSE "low_success_rate", "finally", ok)
    /\ UNCHANGED <<mvars, envvars, fsvars, status_dict, wrepo, wrun, ti, successful_tags, save_dict, hist>>

\* the finally clause after a return from inside the with block
WFinally(w) ==
    /\ pc[w] = "finally"
    /\ lockFile' = FinallyRemoveLock(w)
    /\ Return(w, upd[w].ret)
    /\ UNCHANGED <<mvars, envvars, hidx, hidxWrites, statusFile, fileWriters, status_dict,
                   wrepo, wrun, save_dict>>

(***************************************************************************)
(* update_repo_status, lines 497-510, as the worker process runs it:       *)
(* the proxied dict assignment, the snapshot dict(status_dict), then       *)
(* open(status_path, 'w') and json.dump in the worker itself.              *)
(***************************************************************************)
WUpdSet(w) ==
    /\ pc[w] = "upd_set"
    /\ status_dict' = [status_dict EXCEPT ![wrun[w]] =
                           DictSet(@, wrepo[w], Entry(upd[w].success, upd[w].error))]
    /\ hist' = [hist EXCEPT ![w].entry = upd[w].error]
    /\ pc' = [pc EXCEPT ![w] = "upd_snap"]
    /\ UNCHANGED <<mvars, envvars, fsvars, wrepo, wrun, ti, successful_tags, upd, save_dict>>

WUpdSnap(w) ==
    /\ pc[w] = "upd_snap"
    /\ save_dict' = [save_dict EXCEPT ![w] = status_dict[wrun[w]]]
    /\ pc' = [pc EXCEPT ![w] = "upd_open"]
    /\ UNCHANGED <<mvars, envvars, fsvars, status_dict, wrepo, wrun, ti, successful_tags, upd, hist>>

WUpdOpen(w) ==
    /\ pc[w] = "upd_open"
    /\ statusFile' = Unreadable
    /\ fileWriters' = fileWriters \cup {w}
    /\ pc' = [pc EXCEPT ![w] = "upd_dump"]
    /\ UNCHANGED <<mvars, envvars, lockFile, hidx, hidxWrites, status_dict, wrepo, wrun, ti,
                   successful_tags, upd, save_dict, hist>>

(***************************************************************************)
(* json.dump through a file object opened before another process wrote the *)
(* file: the bytes go to offset 0 over what is there.  A longer document   *)
(* replaces a shorter one; a shorter one leaves the tail of the longer     *)
(* one behind it, which is no JSON document.  Length is counted in         *)
(* entries; with as many entries either can be the longer.                 *)
(***************************************************************************)
DumpOutcomes(existing, mine) ==
    IF existing = Unreadable THEN {mine}
    ELSE IF Cardinality(DOMAIN mine) > Cardinality(DOMAIN existing) THEN {mine}
    ELSE IF Cardinality(DOMAIN mine) < Cardinality(DOMAIN existing) THEN {Unreadable}
    ELSE IF mine = existing THEN {mine}
    ELSE {mine, Unreadable}

WUpdDump(w) ==
    /\ pc[w] = "upd_dump"
    /\ statusFile' \in DumpOutcomes(statusFile, save_dict[w])
    /\ fileWriters' = fileWriters \ {w}
    /\ save_dict' = [save_dict EXCEPT ![w] = EmptyMap]
    /\ IF upd[w].next = "finally"
       THEN /\ pc' = [pc EXCEPT ![w] = "finally"]
            /\ UNCHANGED <<hist, ti, successful_tags, upd>>
       ELSE Return(w, upd[w].ret)
    /\ UNCHANGED <<mvars, envvars, lockFile, hidx, hidxWrites, status_dict, wrepo, wrun>>

WorkerStep(w) ==
    \/ WStart(w)
    \/ WCleanup(w)
    \/ WLock(w)
    \/ WFeFinally(w)
    \/ WEnter(w)
    \/ WTagCheck(w)
    \/ WCheckout(w)
    \/ WExtract(w)
    \/ WExFinally(w)
    \/ WFinish(w)
    \/ WFinally(w)
    \/ WUpdSet(w)
    \/ WUpdSnap(w)
    \/ WUpdOpen(w)
    \/ WUpdDump(w)

(***************************************************************************)
(* Workers of separate collector runs over one repo: each call has the     *)
(* status dict of its own run, all share the file system.                  *)
(***************************************************************************)
InitWorkers ==
    /\ pc = [w \in Workers |-> "idle"]
    /\ wrepo = [w \in Workers |-> "x"]
    /\ wrun = [w \in Workers |-> w]
    /\ ti = [w \in Workers |-> 1]
    /\ successful_tags = [w \in Workers |-> 0]
    /\ upd = [w \in Workers |-> NoUpd]
    /\ save_dict = [w \in Workers |-> EmptyMap]
    /\ hist = [w \in Workers |-> NoHist]

\* the main process is not part of the specifications of single worker calls
InitNoMain ==
    /\ mpc = "none"
    /\ repo_status = EmptyMap
    /\ batch_repos = {}
    /\ attempt = 0
    /\ processed_repos = {}
    /\ failed_repos = {}
    /\ toSubmit = {}
    /\ future_to_repo = {}
    /\ collected = {}
    /\ poolBroken = FALSE
    /\ sigint = FALSE
    /\ mhist = [startStatus |-> EmptyMap, startHidx |-> hidx, inflight |-> {}, submitted |-> {},
                broke |-> FALSE]

\* process_single_component returned None
None == [none |-> TRUE]

\* the detector has not been started
InitNoDet ==
    /\ relpaths = [r \in Repos |-> EmptyMap]
    /\ inputDict = <<>>
    /\ tpriv = [r \in Repos |-> 0]
    /\ unreadable = [r \in Repos |-> FALSE]
    /\ dpc = "none"
    /\ fstate = [r \in Repos |-> "none"]
    /\ fresult = [r \in Repos |-> None]
    /\ resultFile = <<>>

ExProcs == 2
Procs == 1..ExProcs

\* no call of process_single_file: state "none"
NoTask == [state |-> "none", thread |-> 0, dir |-> <<>>, results |-> <<>>, fn_cnt |-> 0]

\* hashing is not part of the specification
InitNoEx ==
    /\ exFuncs = [p \in Procs |-> EmptyMap]
    /\ ident = [p \in Procs |-> EmptyMap]
    /\ hpc = [p \in Procs |-> "none"]
    /\ task = [p \in Procs |-> EmptyMap]
    /\ completed = [p \in Procs |-> <<>>]
    /\ result_dict = [p \in Procs |-> EmptyMap]
    /\ func_count = [p \in Procs |-> 0]
    /\ tempDirs = {}
    /\ tempFiles = {}
    /\ tagFile = [p \in Procs |-> NotWritten]

\* no Cache has been made
InitNoCache ==
    /\ max_size = 0
    /\ persistent = FALSE
    /\ cache = EmptyMap
    /\ access_times = <<>>
    /\ cache_files = EmptyMap
    /\ clock = 0

\* no object of the core package has been made
\* no ParallelManager has been made
InitNoPM ==
    /\ pm_pc = "none"
    /\ pm_items = <<>>
    /\ pm_chunk_size = 0
    /\ pm_use_threads = FALSE
    /\ pm_futures = <<>>
    /\ pm_failed = FALSE
    /\ pm_results = <<>>

InitNoCore ==
    /\ InitNoCache
    /\ InitNoPM

\* the preprocessor is not part of the specifications of the collector
InitNoPre ==
    /\ InitNoDet
    /\ impl = "full"
    /\ tagIndex = [r \in Repos |-> <<>>]
    /\ tagDate = [r \in Repos |-> <<>>]
    /\ verNames = [r \in Repos |-> <<>>]
    /\ private = [r \in Repos |-> 0]
    /\ near = FALSE
    /\ initialSigs = [r \in Repos |-> NotWritten]
    /\ funcDate = [r \in Repos |-> NotWritten]
    /\ verIDX = [r \in Repos |-> NotWritten]
    /\ metaDone = {}
    /\ unique = EmptyMap
    /\ aveFuncJson = EmptyMap
    /\ uniqueFuncs = NotWritten
    /\ aveFuncs = NotWritten
    /\ segmented = {}
    /\ componentDB = [r \in Repos |-> NotWritten]

InitFs ==
    /\ lockFile = [r \in Repos |-> FALSE]
    /\ hidx = [r \in Repos |-> {}]
    /\ hidxWrites = [r \in Repos |-> 0]
    /\ truncated = [r \in Repos |-> {}]
    /\ statusFile = EmptyMap
    /\ fileWriters = {}
    /\ status_dict = [n \in RunIds |-> EmptyMap]

\* BatchProcessor.load_status: an empty status file is created anew as {}
load_status(file) == IF file = Unreadable THEN EmptyMap ELSE file

\* variant: the loaded status is not consulted
is_repo_processed_Never(status, r) == FALSE

\* BatchProcessor.is_repo_processed over the loaded status
is_repo_processed(status, r) == IF r \in DOMAIN status THEN status[r].success ELSE FALSE

(***************************************************************************)
(* A collector run of its own (run w) loads status.json and, the repo not  *)
(* being marked successful, calls process_single_repo(repo_path,           *)
(* status_dict) in a pool worker.  A run that has ended can be followed by *)
(* a new one in its place; the history kept is that of the current call.   *)
(***************************************************************************)
Invoke(w, r) ==
    /\ pc[w] \in {"idle", "done"}
    /\ ~is_repo_processed(load_status(statusFile), r)
    /\ pc' = [pc EXCEPT ![w] = "start"]
    /\ wrepo' = [wrepo EXCEPT ![w] = r]
    /\ hist' = [hist EXCEPT ![w] = NoHist]
    /\ statusFile' = load_status(statusFile)
    /\ status_dict' = [status_dict EXCEPT ![wrun[w]] = load_status(statusFile)]
    /\ UNCHANGED <<mvars, envvars, lockFile, hidx, hidxWrites, fileWriters, wrun, ti,
                   successful_tags, upd, save_dict>>

\* the same, the runs following one another: no other call is under way
InvokeAfter(w, r) ==
    /\ \A v \in Workers : pc[v] \in {"idle", "done"}
    /\ ~is_repo_processed(load_status(statusFile), r)
    /\ pc' = [v \in Workers |-> IF v = w THEN "start" ELSE "idle"]
    /\ wrepo' = [wrepo EXCEPT ![w] = r]
    /\ hist' = [v \in Workers |-> NoHist]
    /\ statusFile' = load_status(statusFile)
    /\ status_dict' = [status_dict EXCEPT ![wrun[w]] = load_status(statusFile)]
    /\ UNCHANGED <<mvars, envvars, lockFile, hidx, hidxWrites, fileWriters, wrun, ti,
                   successful_tags, upd, save_dict>>

InitLock ==
    /\ repoKind = [r \in Repos |-> "ok"]
    /\ \E n \in 0..LockMaxTags : repoTags = [r \in Repos |-> TagList(n)]
    /\ InitFs
    /\ InitWorkers
    /\ InitNoMain
    /\ InitNoPre
    /\ InitNoEx
    /\ InitNoCore

NextLock ==
    \/ \E w \in 1..LockWorkers : Invoke(w, "x")
    \/ \E w \in 1..LockWorkers : WorkerStep(w)

SpecLock == InitLock /\ [][NextLock]_vars

(***************************************************************************)
(* Concurrent runs over one repo, each started once.                       *)
(***************************************************************************)
InitContend ==
    /\ repoKind = [r \in Repos |-> "ok"]
    /\ \E n \in 0..ContendMaxTags : repoTags = [r \in Repos |-> TagList(n)]
    /\ InitFs
    /\ InitWorkers
    /\ InitNoMain
    /\ InitNoPre
    /\ InitNoEx
    /\ InitNoCore

NextContend ==
    \/ \E w \in 1..ContendWorkers : pc[w] = "idle" /\ Invoke(w, "x")
    \/ \E w \in 1..ContendWorkers : WorkerStep(w)

SpecContend == InitContend /\ [][NextContend]_vars

\* the repo may carry the lock file of a run that was killed
InitWalk ==
    /\ repoKind = [r \in Repos |-> "ok"]
    /\ \E n \in 0..WalkMaxTags : repoTags = [r \in Repos |-> TagList(n)]
    /\ \E stale \in BOOLEAN : lockFile = [r \in Repos |-> stale /\ r = "x"]
    /\ hidx = [r \in Repos |-> {}]
    /\ hidxWrites = [r \in Repos |-> 0]
    /\ truncated = [r \in Repos |-> {}]
    /\ statusFile = EmptyMap
    /\ fileWriters = {}
    /\ status_dict = [n \in RunIds |-> EmptyMap]
    /\ InitWorkers
    /\ InitNoMain
    /\ InitNoPre
    /\ InitNoEx
    /\ InitNoCore

NextWalk ==
    \/ \E w \in 1..WalkWorkers : InvokeAfter(w, "x")
    \/ \E w \in 1..WalkWorkers : WorkerStep(w)

SpecWalk == InitWalk /\ [][NextWalk]_vars

(***************************************************************************)
(* Claims about the lock and the tag walk.                                 *)
(***************************************************************************)
\* the operations that change a repo's working tree or git state
Mutating(w) == pc[w] \in {"cleanup", "checkout", "extract"}

\* C1: for any repo, at most one worker at a time performs working-tree-mutating
\* operations on it (git cleanup, tag checkout, extraction), under every interleaving
\* of workers, including workers of separate collector runs.
C1_SingleWriter ==
    \A v, w \in Workers :
        (v # w /\ wrepo[v] = wrepo[w]) => ~(Mutating(v) /\ Mutating(w))

\* the same restricted to what the code does after open(lock_file, 'x') succeeded
C1_ExclusiveUnderLock ==
    \A v, w \in Workers :
        (v # w /\ wrepo[v] = wrepo[w])
            => ~(pc[v] \in {"checkout", "extract"} /\ pc[w] \in {"checkout", "extract"})

\* C2: a worker that finds .git/centris.lock present performs no tag checkout and no
\* extraction, writes no TagIndex, and returns False having recorded for the repo
\* the entry success=false, "being processed by another worker".
C2_LockedRepoSkipped ==
    \A w \in Workers :
        hist[w].lockFailed =>
            /\ hist[w].checkedOut = {}
            /\ hist[w].extracted = {}
            /\ hist[w].wrote = {}
            /\ pc[w] \in {"fe_finally", "upd_set", "upd_snap", "upd_open", "upd_dump", "done"}
            /\ pc[w] = "done" =>
                  /\ hist[w].returned = "false"
                  /\ wrepo[w] \in DOMAIN status_dict[wrun[w]]
                  /\ status_dict[wrun[w]][wrepo[w]] = Entry(FALSE, "being_processed")

C2_Witness ==
    \E w \in Workers : hist[w].lockFailed /\ pc[w] = "done"

WorkerMoved(w) == pc'[w] # pc[w] \/ ti'[w] # ti[w] \/ hist'[w] # hist[w]

\* C4: when the walker reaches a tag whose fuzzy_<normalised_tag>.hidx exists, it
\* moves on to the next tag: no checkout, no extraction, and the result files are
\* not written.
C4_ExistingTagSkipped ==
    [][\A w \in Workers :
          (/\ pc[w] = "tagcheck"
           /\ ti[w] <= total_tags(w)
           /\ expected_hidx_file(w) \in hidx[wrepo[w]]
           /\ WorkerMoved(w))
          => /\ pc'[w] = "tagcheck"
             /\ ti'[w] = ti[w] + 1
             /\ hist'[w].checkedOut = hist[w].checkedOut
             /\ hist'[w].extracted = hist[w].extracted
             /\ hist'[w].wrote = hist[w].wrote
             /\ hidx' = hidx
             /\ hidxWrites' = hidxWrites]_vars

\* a run has skipped a tag whose file an earlier run wrote
C4_Witness ==
    \E w \in Workers :
        /\ 3 \in hist[w].skipped
        /\ 3 \notin hist[w].wrote
        /\ hidxWrites[wrepo[w]] > 0
        /\ pc[w] = "done"

Walked(w) == hist[w].entry \in {"null", "low_success_rate"}

\* C5: after the tags of a repo have been walked, the recorded entry has success=true
\* iff (tags written in this run + tags skipped as existing) / enumerated tags >= 0.8.
C5_SuccessIffEightyPercent ==
    \A w \in Workers :
        Walked(w) =>
            LET good == Cardinality(hist[w].wrote) + Cardinality(hist[w].skipped)
                total == total_tags(w)
                e == status_dict[wrun[w]][wrepo[w]]
            IN /\ e.success = (5 * good >= 4 * total)
               /\ e.success => e.error = "null"
               /\ ~e.success => e.error = "low_success_rate"
               /\ pc[w] = "done" => hist[w].returned = (IF e.success THEN "true" ELSE "false")

\* four of five tags: exactly 0.8
C5_Witness ==
    \E w \in Workers :
        /\ Walked(w)
        /\ total_tags(w) = 5
        /\ Cardinality(hist[w].wrote) + Cardinality(hist[w].skipped) = 4
        /\ Cardinality(hist[w].skipped) >= 1
        /\ status_dict[wrun[w]][wrepo[w]].success

(***************************************************************************)
(* BatchProcessor, lines 1285-1511, and main, lines 1513-1537.  One        *)
(* collector run; its workers are the futures of a ProcessPoolExecutor and *)
(* share the manager's dict status_dict[1].                                *)
(***************************************************************************)
Running(w) == pc[w] \notin {"idle", "queued", "done", "killed"}

\* max_workers = max(1, min(cpu_count - reserved_cores, len(batch_repos)))
max_workers == IF Cardinality(batch_repos) < PoolSize THEN Cardinality(batch_repos) ELSE PoolSize

\* update_repo_status run by the main process: the dict assignment and the file write
MainUpdate(d, r, success, error) == DictSet(d, r, Entry(success, error))

\* load_status, then process_repos up to the first process_batch (1335-1379)
MStart ==
    /\ mpc = "init"
    /\ LET st == load_status(statusFile)
           unprocessed == {r \in Repos : ~is_repo_processed(st, r)}
       IN /\ repo_status' = st
          /\ statusFile' = st
          /\ mhist' = [mhist EXCEPT !.startStatus = st, !.startHidx = hidx]
          /\ batch_repos' = unprocessed
          /\ status_dict' = [status_dict EXCEPT ![1] = st]
          /\ mpc' = IF unprocessed = {} THEN "exited" ELSE "attempt"
    /\ attempt' = 0
    /\ processed_repos' = {}
    /\ failed_repos' = {}
    /\ UNCHANGED <<envvars, lockFile, hidx, hidxWrites, fileWriters, wvars,
                   toSubmit, future_to_repo, collected, poolBroken, sigint>>

\* lines 1398-1410: the head of the retry loop, a new ProcessPoolExecutor
MAttempt ==
    /\ mpc = "attempt"
    /\ LET remaining_repos == batch_repos \ (processed_repos \cup failed_repos)
       IN IF attempt >= MaxAttempts \/ remaining_repos = {}
          THEN /\ mpc' = "finish"
               /\ UNCHANGED <<toSubmit, future_to_repo, collected, poolBroken>>
          ELSE /\ mpc' = "submit"
               /\ toSubmit' = remaining_repos
               /\ future_to_repo' = {}
               /\ collected' = {}
               /\ poolBroken' = FALSE
    /\ UNCHANGED <<collvars, repo_status, batch_repos, attempt, processed_repos, failed_repos,
                   sigint, mhist>>

FreeWorker == CHOOSE w \in Workers : pc[w] = "idle" /\ \A v \in Workers : pc[v] = "idle" => w <= v

(***************************************************************************)
(* Lines 1415-1417: executor.submit(process_single_repo, repo_path,        *)
(* status_dict).  On a broken pool submit raises BrokenProcessPool, which  *)
(* the handler at 1479 answers with the next attempt.                      *)
(***************************************************************************)
MSubmit(r) ==
    /\ mpc = "submit"
    /\ r \in toSubmit
    /\ IF poolBroken
       THEN /\ attempt' = attempt + 1
            /\ mpc' = "attempt"
            /\ UNCHANGED <<pc, wrepo, toSubmit, future_to_repo, mhist>>
       ELSE /\ \E w \in Workers : pc[w] = "idle"
            /\ pc' = [pc EXCEPT ![FreeWorker] = "queued"]
            /\ wrepo' = [wrepo EXCEPT ![FreeWorker] = r]
            /\ toSubmit' = toSubmit \ {r}
            /\ future_to_repo' = future_to_repo \cup {FreeWorker}
            /\ mhist' = [mhist EXCEPT !.submitted = IF sigint THEN @ \cup {FreeWorker} ELSE @]
            /\ mpc' = IF toSubmit \ {r} = {} THEN "collect" ELSE "submit"
            /\ attempt' = attempt
    /\ UNCHANGED <<envvars, fsvars, status_dict, wrun, ti, successful_tags, upd, save_dict, hist,
                   repo_status, batch_repos, processed_repos, failed_repos, collected,
                   poolBroken, sigint>>

\* a pool process takes the queued call
WBegin(w) ==
    /\ pc[w] = "queued"
    /\ w \in future_to_repo
    /\ ~poolBroken
    /\ Cardinality({v \in future_to_repo : Running(v)}) < max_workers
    /\ pc' = [pc EXCEPT ![w] = "start"]
    /\ UNCHANGED <<mvars, envvars, fsvars, status_dict, wrepo, wrun, ti, successful_tags, upd,
                   save_dict, hist>>

(***************************************************************************)
(* A pool process dies (killed by the system, a fault in native code).     *)
(* The executor is broken: its processes are terminated where they are and *)
(* every future not yet done raises BrokenProcessPool.  A process that     *)
(* was in indexing() when it was terminated had opened the result file of  *)
(* its tag with open(filePath, 'w') and leaves it half written.            *)
(***************************************************************************)
\* the result files the processes of `writers` were writing for repo r
FilesOf(writers, r) == {expected_hidx_file(v) : v \in {u \in writers : wrepo[u] = r}}

WCrash(w) ==
    /\ mpc \in {"submit", "collect", "sigint_wait"}
    /\ w \in future_to_repo
    /\ Running(w)
    /\ ~poolBroken
    /\ poolBroken' = TRUE
    /\ LET dead == {v \in future_to_repo : pc[v] # "done"}
       IN /\ pc' = [v \in Workers |-> IF v \in dead THEN "killed" ELSE pc[v]]
          /\ ti' = [v \in Workers |-> IF v \in dead THEN 1 ELSE ti[v]]
          /\ successful_tags' = [v \in Workers |-> IF v \in dead THEN 0 ELSE successful_tags[v]]
          /\ upd' = [v \in Workers |-> IF v \in dead THEN NoUpd ELSE upd[v]]
          /\ save_dict' = [v \in Workers |-> IF v \in dead THEN EmptyMap ELSE save_dict[v]]
          /\ hist' = [v \in Workers |-> IF v \in dead THEN NoHist ELSE hist[v]]
          /\ \E writers \in SUBSET {v \in dead : pc[v] = "extract"} :
                /\ hidx' = [r \in Repos |-> hidx[r] \cup FilesOf(writers, r)]
                /\ truncated' = [r \in Repos |-> truncated[r] \cup FilesOf(writers, r)]
                /\ hidxWrites' = [r \in Repos |->
                                    hidxWrites[r] + Cardinality({u \in writers : wrepo[u] = r})]
    /\ fileWriters' = fileWriters \ future_to_repo
    /\ mhist' = [mhist EXCEPT !.broke = TRUE]
    /\ UNCHANGED <<envrest, lockFile, statusFile, status_dict, wrepo, wrun,
                   mpc, repo_status, batch_repos, attempt,
                   processed_repos, failed_repos, toSubmit, future_to_repo, collected, sigint>>

(***************************************************************************)
(* Lines 1420-1478: as_completed yields a finished future.  A result marks *)
(* the repo processed; BrokenProcessPool marks it failed, records the      *)
(* status and breaks out of the loop to the next attempt.                  *)
(***************************************************************************)
MCollect(w) ==
    /\ mpc = "collect"
    /\ w \in future_to_repo \ collected
    /\ \/ /\ pc[w] = "done"
          /\ processed_repos' = processed_repos \cup {wrepo[w]}
          /\ collected' = collected \cup {w}
          /\ IF collected \cup {w} = future_to_repo
             THEN attempt' = attempt + 1 /\ mpc' = "attempt"
             ELSE attempt' = attempt /\ mpc' = mpc
          /\ UNCHANGED <<failed_repos, status_dict, statusFile>>
       \/ /\ pc[w] = "killed"
          /\ failed_repos' = failed_repos \cup {wrepo[w]}
          /\ status_dict' = [status_dict EXCEPT ![1] = MainUpdate(@, wrepo[w], FALSE, "pool_broken")]
          /\ statusFile' = MainUpdate(status_dict[1], wrepo[w], FALSE, "pool_broken")
          /\ attempt' = attempt + 1
          /\ mpc' = "attempt"
          /\ UNCHANGED <<processed_repos, collected>>
    /\ UNCHANGED <<envvars, lockFile, hidx, hidxWrites, fileWriters, wvars, repo_status, batch_repos,
                   toSubmit, future_to_repo, poolBroken, sigint, mhist>>

RECURSIVE MarkFailed(_, _)
\* lines 1498-1506: a failed repo without a status entry gets one
MarkFailed(d, rs) ==
    IF rs = {} THEN d
    ELSE LET r == CHOOSE x \in rs : TRUE
         IN MarkFailed(IF r \in DOMAIN d THEN d ELSE MainUpdate(d, r, FALSE, "retries_failed"),
                       rs \ {r})

\* lines 1497-1511: the end of process_batch, and of the run
MFinish ==
    /\ mpc = "finish"
    /\ LET d == MarkFailed(status_dict[1], failed_repos \ processed_repos)
       IN /\ status_dict' = [status_dict EXCEPT ![1] = d]
          /\ repo_status' = DictUpdate(repo_status, d)
          /\ statusFile' = DictUpdate(repo_status, d)
    /\ mpc' = "exited"
    /\ UNCHANGED <<envvars, lockFile, hidx, hidxWrites, fileWriters, wvars, batch_repos, attempt,
                   processed_repos, failed_repos, toSubmit, future_to_repo, collected, poolBroken,
                   sigint, mhist>>

(***************************************************************************)
(* Line 1515: SIGINT in the main process raises SystemExit there.  No      *)
(* handler of process_batch catches it (they catch Exception); leaving     *)
(* `with ProcessPoolExecutor` waits for the submitted futures, and lines   *)
(* 1497-1511 are not run.                                                  *)
(***************************************************************************)
MSigint ==
    /\ ~sigint
    /\ mpc \in {"attempt", "submit", "collect", "finish"}
    /\ sigint' = TRUE
    /\ mhist' = [mhist EXCEPT !.inflight =
                     IF mpc \in {"submit", "collect"}
                     THEN {w \in future_to_repo : Running(w)} ELSE {}]
    /\ mpc' = IF mpc \in {"submit", "collect"} THEN "sigint_wait" ELSE "exited"
    /\ UNCHANGED <<collvars, repo_status, batch_repos, attempt, processed_repos, failed_repos,
                   toSubmit, future_to_repo, collected, poolBroken>>

\* executor.shutdown(wait=True) returns, SystemExit leaves the program
MSigintExit ==
    /\ mpc = "sigint_wait"
    /\ \A w \in future_to_repo : pc[w] \in {"done", "killed"}
    /\ mpc' = "exited"
    /\ UNCHANGED <<collvars, repo_status, batch_repos, attempt, processed_repos, failed_repos,
                   toSubmit, future_to_repo, collected, poolBroken, sigint, mhist>>

\* the result files of a repo all of whose tags have been indexed
AllFiles(n, r) == IF n = 0 THEN {RepoNameTag(r)} ELSE {normalize_tag(TagName(i)) : i \in 1..n}

(***************************************************************************)
(* A run starts from what earlier runs left: per repo no status entry, or  *)
(* a success entry with the result files of its tags; a repo without entry *)
(* may carry the lock file of a run that was killed.                       *)
(***************************************************************************)
InitBatch ==
    /\ repoKind = [r \in Repos |-> "ok"]
    /\ \E n \in 0..BatchMaxTags :
          /\ repoTags = [r \in Repos |-> TagList(n)]
          /\ \E S \in SUBSET Repos :
                /\ statusFile = [r \in S |-> Entry(TRUE, "null")]
                /\ hidx = [r \in Repos |-> IF r \in S THEN AllFiles(n, r) ELSE {}]
                /\ \E stale \in BOOLEAN : lockFile = [r \in Repos |-> stale /\ r = "x" /\ r \notin S]
    /\ hidxWrites = [r \in Repos |-> 0]
    /\ truncated = [r \in Repos |-> {}]
    /\ fileWriters = {}
    /\ status_dict = [n \in RunIds |-> EmptyMap]
    /\ pc = [w \in Workers |-> "idle"]
    /\ wrepo = [w \in Workers |-> "x"]
    /\ wrun = [w \in Workers |-> 1]
    /\ ti = [w \in Workers |-> 1]
    /\ successful_tags = [w \in Workers |-> 0]
    /\ upd = [w \in Workers |-> NoUpd]
    /\ save_dict = [w \in Workers |-> EmptyMap]
    /\ hist = [w \in Workers |-> NoHist]
    /\ InitNoPre
    /\ InitNoEx
    /\ InitNoCore
    /\ mpc = "init"
    /\ repo_status = EmptyMap
    /\ batch_repos = {}
    /\ attempt = 0
    /\ processed_repos = {}
    /\ failed_repos = {}
    /\ toSubmit = {}
    /\ future_to_repo = {}
    /\ collected = {}
    /\ poolBroken = FALSE
    /\ sigint = FALSE
    /\ mhist = [startStatus |-> EmptyMap, startHidx |-> hidx, inflight |-> {}, submitted |-> {},
                broke |-> FALSE]

\* a run in which pool processes may die
NextBatch ==
    \/ MStart
    \/ MAttempt
    \/ \E r \in Repos : MSubmit(r)
    \/ \E w \in Workers : WBegin(w)
    \/ \E w \in Workers : WorkerStep(w)
    \/ \E w \in Workers : WCrash(w)
    \/ \E w \in Workers : MCollect(w)
    \/ MFinish

SpecBatch == InitBatch /\ [][NextBatch]_vars

\* a run that may receive SIGINT
NextSigint ==
    \/ MStart
    \/ MAttempt
    \/ \E r \in Repos : MSubmit(r)
    \/ \E w \in Workers : WBegin(w)
    \/ \E w \in Workers : WorkerStep(w)
    \/ \E w \in Workers : MCollect(w)
    \/ MFinish
    \/ MSigint
    \/ MSigintExit

SpecSigint == InitBatch /\ [][NextSigint]_vars

(***************************************************************************)
(* Claims about the batch processor.                                       *)
(***************************************************************************)
StartedFor(r) == {w \in Workers : pc[w] # "idle" /\ wrepo[w] = r}

SuccessAtStart(r) ==
    /\ mpc # "init"
    /\ r \in DOMAIN mhist.startStatus
    /\ mhist.startStatus[r].success

\* C3: a repo whose status.json entry has success=true when the run starts gets no
\* worker in that run, no result file of it is created or written, and every complete
\* status.json the run leaves, the one at its end included, holds that entry unchanged.
C3_SuccessfulRepoSkipped ==
    \A r \in Repos :
        SuccessAtStart(r) =>
            /\ StartedFor(r) = {}
            /\ r \notin batch_repos
            /\ hidx[r] = mhist.startHidx[r]
            /\ hidxWrites[r] = 0
            /\ statusFile # Unreadable =>
                  (r \in DOMAIN statusFile /\ statusFile[r] = mhist.startStatus[r])
            /\ mpc = "exited" => statusFile # Unreadable

\* one repo was skipped while the other was processed, and the run has ended
C3_Witness ==
    /\ mpc = "exited"
    /\ SuccessAtStart("x")
    /\ \E w \in Workers : wrepo[w] = "y" /\ pc[w] = "done" /\ hist[w].wrote # {}
    /\ "y" \in DOMAIN statusFile

\* C6: no two workers of a run write status.json at the same time.
C6_StatusWritesSerialised ==
    \A v, w \in Workers :
        (v # w /\ wrun[v] = wrun[w]) => ~(v \in fileWriters /\ w \in fileWriters)

Returned(r) == {w \in StartedFor(r) : pc[w] = "done"}
LastReturned(r) == CHOOSE w \in Returned(r) : \A v \in Returned(r) : v <= w

\* the processing of r failed in this batch: no call for it ever returned (its
\* workers died, the pool broke), or the last call that returned took a failing exit
ProcessingFailed(r) ==
    \/ Returned(r) = {}
    \/ /\ Returned(r) # {}
       /\ hist[LastReturned(r)].returned = "false"
       /\ hist[LastReturned(r)].entry # "not_c_project"

\* C7: when the batch has finished, status.json holds, for every repo of the batch
\* whose processing failed, an entry with success=false and a non-empty error.
C7_FailuresRecorded ==
    (mpc = "exited" /\ ~sigint) =>
        \A r \in batch_repos :
            ProcessingFailed(r) =>
                /\ statusFile # Unreadable
                /\ r \in DOMAIN statusFile
                /\ ~statusFile[r].success
                /\ statusFile[r].error \notin {"null", ""}

\* C8: after SIGINT nothing more is submitted, and when the program has left, every
\* worker that was in flight has run to completion and the result files and the
\* status entry it produced are on disk.
C8_SigintKeepsInflightResults ==
    /\ mhist.submitted = {}
    /\ (sigint /\ mpc = "exited") =>
          \A w \in mhist.inflight :
              /\ pc[w] = "done"
              /\ \A i \in hist[w].wrote :
                    normalize_tag(IF NoTags(w) THEN RepoNameTag(wrepo[w]) ELSE Tags(w)[i]) \in hidx[wrepo[w]]
              /\ statusFile # Unreadable
              /\ wrepo[w] \in DOMAIN statusFile
              /\ statusFile[wrepo[w]].error = hist[w].entry

(***************************************************************************)
(* The preprocessor.  Its input is what the collector left: per repo the   *)
(* TagIndex files of the tags and the repo_date file.  Dates and NODATE    *)
(* are character sequences, compared as Python compares str.               *)
(***************************************************************************)
PreMaxTags == 2
PrivateFuncs == 30
PreTotalTags == 3

\* theta = 0.1
theta_num == 1
theta_den == 10

Fps == {"f", "g"}
NODATE == <<"N", "O", "D", "A", "T", "E">>
Date1 == <<"2", "0", "1", "9", "-", "1", "2", "-", "3", "1">>
Date2 == <<"2", "0", "2", "0", "-", "0", "1", "-", "0", "1">>
\* the dates of the repo_date files, the earlier first
KnownDates == <<Date1, Date2>>
\* a tag the repo_date file gives no date
Undated == <<>>
DateChoices == {Undated, Date1, Date2}
TagLines == {<<"f">>, <<"g">>, <<"f", "g">>}

\* the code point of a character
ord(c) ==
    CASE c = "-" -> 45
      [] c = "0" -> 48
      [] c = "1" -> 49
      [] c = "2" -> 50
      [] c = "3" -> 51
      [] c = "9" -> 57
      [] c = "A" -> 65
      [] c = "D" -> 68
      [] c = "E" -> 69
      [] c = "N" -> 78
      [] c = "O" -> 79
      [] c = "T" -> 84
      [] c = " " -> 32
      [] c = "." -> 46
      [] c = "4" -> 52
      [] c = "5" -> 53
      [] c = "_" -> 95
      [] c = "d" -> 100
      [] c = "f" -> 102
      [] c = "h" -> 104
      [] c = "i" -> 105
      [] c = "u" -> 117
      [] c = "x" -> 120
      [] c = "y" -> 121
      [] c = "z" -> 122

\* a < b on str: by code point at the first difference, a proper prefix first
str_lt(a, b) ==
    LET n == IF Len(a) < Len(b) THEN Len(a) ELSE Len(b)
        diff == {i \in 1..n : a[i] # b[i]}
    IN IF diff = {} THEN Len(a) < Len(b)
       ELSE LET i == CHOOSE k \in diff : \A j \in diff : k <= j
            IN ord(a[i]) < ord(b[i])

str_le(a, b) == a = b \/ str_lt(a, b)

RECURSIVE insort(_, _)
insort(s, d) ==
    IF s = <<>> THEN <<d>>
    ELSE IF str_lt(d, s[1]) THEN <<d>> \o s
    ELSE <<s[1]>> \o insort(Tail(s), d)

RECURSIVE list_sort(_)
\* list.sort() of a list of str
list_sort(s) == IF s = <<>> THEN <<>> ELSE insort(list_sort(SubSeq(s, 1, Len(s) - 1)), s[Len(s)])

\* variant: the first date appended is taken, the list not sorted
func_date_Unsorted(lst) == lst[1]

\* tempDateDict[hashval].sort(); funcDateDict[hashval] = tempDateDict[hashval][0]
func_date(lst) == list_sort(lst)[1]

(***************************************************************************)
(* The data lines of a TagIndex as the signature builder reads them: full  *)
(* skips the header with next(fp); lite takes body.split('\n')[1:-1] of    *)
(* the stripped body, which leaves out the last data line as well.         *)
(***************************************************************************)
data_lines(im, lines) == IF im = "lite" THEN SubSeq(lines, 1, Len(lines) - 1) ELSE lines

HasFp(lines, fp) == \E k \in DOMAIN lines : lines[k] = fp

\* variant: the index is appended after the increment of idx, without the - 1
ver_index_NoDecrement(i) == i

\* idx - 1 while the i-th version is read: idx has been incremented i times
ver_index(i) == i - 1

RECURSIVE line_hits(_, _, _)
\* what the lines of one version append to signature[hashval]: the index, once per line
\* whose hash is hashval
line_hits(lines, fp, v) ==
    IF lines = <<>> THEN <<>>
    ELSE (IF lines[1] = fp THEN <<v>> ELSE <<>>) \o line_hits(Tail(lines), fp, v)

RECURSIVE signature(_, _, _, _)
\* signature[hashval]: str(idx-1) appended for each line of hashval, in version order
signature(im, tis, fp, i) ==
    IF i > Len(tis) THEN <<>>
    ELSE line_hits(data_lines(im, tis[i]), fp, ver_index(i)) \o signature(im, tis, fp, i + 1)

RECURSIVE temp_date_dict(_, _, _, _, _)
\* tempDateDict[hashval]: the version's date, or "NODATE", appended in version order
temp_date_dict(im, tis, tds, fp, i) ==
    IF i > Len(tis) THEN <<>>
    ELSE (IF HasFp(data_lines(im, tis[i]), fp)
          THEN <<IF tds[i] = Undated THEN NODATE ELSE tds[i]>> ELSE <<>>)
         \o temp_date_dict(im, tis, tds, fp, i + 1)

\* what no step of the preprocessor changes
\* the state of the collector
colpart == <<repoKind, repoTags, corevars, truncated, fsvars, status_dict, wvars, mvars, exvars>>
colstate == <<colpart, detvars>>
preinput == <<impl, tagIndex, tagDate, verNames, private, near>>

(***************************************************************************)
(* The versions of a repo as process_single_repo finds them: the names of  *)
(* the files of result/<R>/ are taken apart, the version names sorted, and *)
(* each version read from the file "fuzzy_" + versionName + ".hidx".       *)
(***************************************************************************)
FuzzyPrefix == <<"f", "u", "z", "z", "y", "_">>
HidxSuffix == <<".", "h", "i", "d", "x">>

\* the file the collector writes for a normalised tag
hidx_file_name(tag) == FuzzyPrefix \o tag \o HidxSuffix

RECURSIVE str_find(_, _, _)
\* the first position >= i at which sub occurs in s, 0 if there is none
str_find(s, sub, i) ==
    IF i + Len(sub) - 1 > Len(s) THEN 0
    ELSE IF SubSeq(s, i, i + Len(sub) - 1) = sub THEN i
    ELSE str_find(s, sub, i + 1)

RECURSIVE str_split(_, _)
\* s.split(sep)
str_split(s, sep) ==
    LET i == str_find(s, sep, 1)
    IN IF i = 0 THEN <<s>>
       ELSE <<SubSeq(s, 1, i - 1)>> \o str_split(SubSeq(s, i + Len(sep), Len(s)), sep)

RECURSIVE str_remove(_, _)
\* s.replace(old, "")
str_remove(s, old) ==
    LET i == str_find(s, old, 1)
    IN IF i = 0 THEN s
       ELSE SubSeq(s, 1, i - 1) \o str_remove(SubSeq(s, i + Len(old), Len(s)), old)

\* variant: the prefix and the suffix of the file name are cut off
versionName_Strip(eachVersion) ==
    SubSeq(eachVersion, Len(FuzzyPrefix) + 1, Len(eachVersion) - Len(HidxSuffix))

\* versionName = eachVersion.split("fuzzy_")[1].replace(".hidx", "")
versionName(eachVersion) == str_remove(str_split(eachVersion, FuzzyPrefix)[2], HidxSuffix)

\* if versionName == '' or versionName == ' ': continue
KeptVersion(v) == ~(v = <<>> \/ v = <<" ">>)

\* verTempLst after verTempLst.sort()
verTempLst(R) ==
    list_sort(SelectSeq([j \in DOMAIN verNames[R] |-> versionName(hidx_file_name(verNames[R][j]))],
                        KeptVersion))

\* per version of verTempLst the file of result/<R>/ that open() finds for it, 0 if none
VersionFile(R) ==
    [k \in DOMAIN verTempLst(R) |->
        LET found == {j \in DOMAIN verNames[R] : verNames[R][j] = verTempLst(R)[k]}
        IN IF found = {} THEN 0 ELSE CHOOSE j \in found : TRUE]

\* the <R>_idx file: an entry per element of verTempLst, idx = verDict[verName], the index
\* given to the name when it was met last
ver_idx_file(lst) ==
    [k \in DOMAIN lst |->
        [ver |-> lst[k],
         idx |-> (CHOOSE m \in DOMAIN lst : lst[m] = lst[k] /\ \A n \in DOMAIN lst : lst[n] = lst[k] => n <= m) - 1]]

\* the tags "1", "2", ... of a repo whose files are listed in version order
DigitName(i) ==
    CASE i = 1 -> <<"1">>
      [] i = 2 -> <<"2">>
      [] i = 3 -> <<"3">>
      [] i = 4 -> <<"4">>
      [] i = 5 -> <<"5">>
DefaultNames(n) == [i \in 1..n |-> DigitName(i)]

(***************************************************************************)
(* redundancyElimination: process_single_repo(repoName) of one repo, which *)
(* writes <R>_funcdate and <R>_sig.                                        *)
(***************************************************************************)
redundancyElimination(R) ==
    /\ initialSigs[R] = NotWritten
    /\ IF \E k \in DOMAIN VersionFile(R) : VersionFile(R)[k] = 0
       THEN UNCHANGED <<initialSigs, funcDate, verIDX>>
       ELSE LET tis == [k \in DOMAIN VersionFile(R) |-> tagIndex[R][VersionFile(R)[k]]]
                tds == [k \in DOMAIN VersionFile(R) |-> tagDate[R][VersionFile(R)[k]]]
                fps == {fp \in Fps : signature(impl, tis, fp, 1) # <<>>}
            IN /\ initialSigs' = [initialSigs EXCEPT ![R] =
                                     [fp \in fps |-> signature(impl, tis, fp, 1)]]
               /\ funcDate' = [funcDate EXCEPT ![R] =
                                  [fp \in fps |-> func_date(temp_date_dict(impl, tis, tds, fp, 1))]]
               /\ verIDX' = [verIDX EXCEPT ![R] = ver_idx_file(verTempLst(R))]
    /\ UNCHANGED <<colstate, preinput, metaDone, unique, aveFuncJson, uniqueFuncs, aveFuncs,
                   segmented, componentDB>>

(***************************************************************************)
(* saveMetaInfos / save_meta_infos: the meta information of one repo is    *)
(* merged into the dicts; after the last repo the files are written.       *)
(* full merges the results of its workers as they complete, with           *)
(* unique.update(result['unique']) where result['unique'][hashval] is the  *)
(* repo name, and writes "OSS": [unique[hashval]]; lite appends the repo   *)
(* name to the list unique[hashval].                                       *)
(***************************************************************************)
totFuncs(R) == Cardinality(DOMAIN initialSigs[R]) + private[R]
totVers(R) == Len(tagIndex[R])

unique_merge(im, u, R) ==
    [fp \in (DOMAIN u) \cup (DOMAIN initialSigs[R]) |->
        IF fp \in DOMAIN initialSigs[R]
        THEN (IF im = "lite" /\ fp \in DOMAIN u THEN Append(u[fp], R) ELSE <<R>>)
        ELSE u[fp]]

saveMetaInfos(R) ==
    /\ \A r \in Repos : initialSigs[r] # NotWritten
    /\ R \notin metaDone
    /\ metaDone' = metaDone \cup {R}
    /\ unique' = unique_merge(impl, unique, R)
    /\ aveFuncJson' = DictSet(aveFuncJson, R, totFuncs(R) \div totVers(R))
    /\ IF metaDone \cup {R} = Repos
       THEN /\ uniqueFuncs' = unique'
            /\ aveFuncs' = aveFuncJson'
       ELSE UNCHANGED <<uniqueFuncs, aveFuncs>>
    /\ UNCHANGED <<colstate, preinput, initialSigs, funcDate, verIDX, segmented, componentDB>>

(***************************************************************************)
(* process_single_segmentation(S_sig, aveFuncs, uniqueFuncs) / one turn of *)
(* the loop of segment_code: the reduction of repo S.                      *)
(***************************************************************************)
\* tlsh.diffxlen(a, b) <= 30
diffxlen_le_30(a, b) == a = b \/ near

\* variant: the dates are not compared
is_donor_AnyDate(dS, dX) == TRUE

\* the date test that makes OSS a potential donor of hashval
is_donor(dS, dX) == dS = NODATE \/ dX = NODATE \/ str_le(dX, dS)

OSSList(fp) == {uniqueFuncs[fp][k] : k \in DOMAIN uniqueFuncs[fp]}

\* how often hashval is counted for X and appended to temp[X]: lite once, full
\* once for every S_hashval of verDateDict[S] within distance 30 of hashval
hits(S, X, fp) ==
    IF X \in OSSList(fp) /\ is_donor(funcDate[S][fp], funcDate[X][fp])
    THEN (IF impl = "lite" THEN 1
          ELSE Cardinality({h \in DOMAIN funcDate[S] : diffxlen_le_30(fp, h)}))
    ELSE 0

RECURSIVE candiX(_, _, _)
\* candiX[X] after the loop over the fps of S's signature
candiX(S, X, fps) ==
    IF fps = {} THEN 0
    ELSE LET fp == CHOOSE h \in fps : TRUE
         IN hits(S, X, fp) + candiX(S, X, fps \ {fp})

\* float(candiX[X]) / float(aveFuncs[X]) >= theta
ratio_ok(c, a) == theta_den * c >= theta_num * a

\* possibleMembers[S]
possibleMembers(S) ==
    {X \in Repos \ {S} :
        /\ \E fp \in DOMAIN initialSigs[S] : X \in OSSList(fp)
        /\ aveFuncs[X] # 0
        /\ DOMAIN funcDate[X] # {} \/ private[X] > 0
        /\ ratio_ok(candiX(S, X, DOMAIN initialSigs[S]), aveFuncs[X])}

removedFuncs(S) ==
    {fp \in DOMAIN initialSigs[S] : \E X \in possibleMembers(S) : hits(S, X, fp) > 0}

process_single_segmentation(S) ==
    /\ uniqueFuncs # NotWritten
    /\ S \notin segmented
    /\ segmented' = segmented \cup {S}
    /\ IF DOMAIN initialSigs[S] = {} /\ private[S] = 0
       THEN componentDB' = componentDB
       ELSE componentDB' = [componentDB EXCEPT ![S] =
                [fp \in DOMAIN initialSigs[S] \ removedFuncs(S) |-> initialSigs[S][fp]]]
    /\ UNCHANGED <<colstate, preinput, initialSigs, funcDate, verIDX, metaDone, unique, aveFuncJson,
                   uniqueFuncs, aveFuncs>>

\* a tag as the preprocessor finds it: the data lines of its TagIndex, its date
TagInputs == [lines : TagLines, date : DateChoices]
RepoInputs == UNION {[1..n -> TagInputs] : n \in 1..PreMaxTags}


\* nothing has been written yet
InitStages ==
    /\ repoKind = [r \in Repos |-> "ok"]
    /\ repoTags = [r \in Repos |-> <<>>]
    /\ InitFs
    /\ InitWorkers
    /\ InitNoMain
    /\ InitNoDet
    /\ InitNoEx
    /\ InitNoCore
    /\ initialSigs = [r \in Repos |-> NotWritten]
    /\ funcDate = [r \in Repos |-> NotWritten]
    /\ verIDX = [r \in Repos |-> NotWritten]
    /\ metaDone = {}
    /\ unique = EmptyMap
    /\ aveFuncJson = EmptyMap
    /\ uniqueFuncs = NotWritten
    /\ aveFuncs = NotWritten
    /\ segmented = {}
    /\ componentDB = [r \in Repos |-> NotWritten]

(***************************************************************************)
(* The three stages over two repos that have PreTotalTags tags at most     *)
(* between them.                                                           *)
(***************************************************************************)
InitPre ==
    /\ InitStages
    /\ impl \in {"full", "lite"}
    /\ \E nx \in 1..(PreTotalTags - 1) :
          \E ny \in 1..(PreTotalTags - nx) :
              \E tx \in [1..nx -> TagInputs] :
                  \E ty \in [1..ny -> TagInputs] :
                      /\ tagIndex = [r \in Repos |-> IF r = "x" THEN [i \in 1..nx |-> tx[i].lines]
                                                                ELSE [i \in 1..ny |-> ty[i].lines]]
                      /\ tagDate = [r \in Repos |-> IF r = "x" THEN [i \in 1..nx |-> tx[i].date]
                                                               ELSE [i \in 1..ny |-> ty[i].date]]
                      /\ verNames = [r \in Repos |-> DefaultNames(IF r = "x" THEN nx ELSE ny)]
    /\ private \in [Repos -> {0, PrivateFuncs}]
    /\ near \in (IF impl = "full" THEN BOOLEAN ELSE {FALSE})

NextPre ==
    \/ \E R \in Repos : redundancyElimination(R)
    \/ \E R \in Repos : saveMetaInfos(R)
    \/ \E S \in Repos : process_single_segmentation(S)

SpecPre == InitPre /\ [][NextPre]_vars

(***************************************************************************)
(* The signature builder alone, over the tags of repo x; y has one tag.    *)
(***************************************************************************)
InitSig ==
    /\ InitStages
    /\ impl \in {"full", "lite"}
    /\ \E t \in RepoInputs :
          /\ tagIndex = [r \in Repos |-> IF r = "x" THEN [i \in DOMAIN t |-> t[i].lines]
                                                    ELSE << <<"g", "f">> >>]
          /\ tagDate = [r \in Repos |-> IF r = "x" THEN [i \in DOMAIN t |-> t[i].date]
                                                   ELSE <<Date1>>]
          /\ verNames = [r \in Repos |-> DefaultNames(IF r = "x" THEN Len(t) ELSE 1)]
    /\ private = [r \in Repos |-> 0]
    /\ near = FALSE

NextSig == \E R \in Repos : redundancyElimination(R)

SpecSig == InitSig /\ [][NextSig]_vars

(***************************************************************************)
(* Claims about the preprocessor.                                          *)
(***************************************************************************)
InDB(R, fp) == componentDB[R] # NotWritten /\ fp \in DOMAIN componentDB[R]

\* C9 as the specification states it: after reduction, every fp that appears anywhere
\* in ComponentDB is listed in the entry of exactly one repo.
C9_ExactlyOneRepo ==
    segmented = Repos =>
        \A fp \in Fps :
            (\E R \in Repos : InDB(R, fp)) => Cardinality({R \in Repos : InDB(R, fp)}) = 1

\* the position of a date in time, the earliest first
DateRank(d) == CHOOSE k \in DOMAIN KnownDates : KnownDates[k] = d

\* X had the fp no later than S, or one of the two dates is not known
MayDonate(bX, bS) == bS = NODATE \/ bX = NODATE \/ DateRank(bX) <= DateRank(bS)

\* C9, amended: a reduced entry is the repo's RepoSignature less the removed fps, and an
\* fp is removed from S's entry only if another repo X ships it with birth[X][fp] no later
\* than birth[S][fp] or with one of the two births NODATE.  An fp that one repo alone
\* ships is thus listed in exactly that repo's entry; an fp that several repos ship can
\* stay listed in several entries.
C9_RemovedOnlyForDonor ==
    \A S \in segmented :
        LET sig == initialSigs[S]
            kept == IF componentDB[S] = NotWritten THEN {} ELSE DOMAIN componentDB[S]
        IN /\ componentDB[S] = NotWritten => (DOMAIN sig = {} /\ private[S] = 0)
           /\ kept \subseteq DOMAIN sig
           /\ \A fp \in kept : componentDB[S][fp] = sig[fp]
           /\ \A fp \in (DOMAIN sig) \ kept :
                 \E X \in Repos \ {S} :
                     /\ fp \in DOMAIN initialSigs[X]
                     /\ MayDonate(funcDate[X][fp], funcDate[S][fp])
           /\ \A fp \in DOMAIN sig :
                 (\A X \in Repos \ {S} : fp \notin DOMAIN initialSigs[X]) => fp \in kept

\* both repos ship an fp born later in y: the reduction took it from y's entry, not from x's
C9_Witness ==
    /\ segmented = Repos
    /\ \E fp \in Fps :
          /\ fp \in DOMAIN initialSigs["x"]
          /\ fp \in DOMAIN initialSigs["y"]
          /\ funcDate["x"][fp] = Date1
          /\ funcDate["y"][fp] = Date2
          /\ InDB("x", fp)
          /\ ~InDB("y", fp)
          /\ componentDB["y"] # NotWritten

Built(R) == initialSigs[R] # NotWritten
TagsWith(R, fp) == {i \in DOMAIN tagIndex[R] : HasFp(tagIndex[R][i], fp)}
DateOfTag(R, i) == IF tagDate[R][i] = Undated THEN NODATE ELSE tagDate[R][i]

\* a <= b in the order of the specification: NODATE smaller than any real date
NodateFirstLeq(a, b) == a = NODATE \/ (b # NODATE /\ str_le(a, b))

VersTags(R, fp) == {initialSigs[R][fp][k] + 1 : k \in DOMAIN initialSigs[R][fp]}

MetaWritten == uniqueFuncs # NotWritten

\* the repos whose RepoSignature contains fp
ReposWith(fp) == {R \in Repos : fp \in DOMAIN initialSigs[R]}

\* C11: after the Weight & Meta stage, for every fp of any RepoSignature the uniqueFuncs
\* entry has exactly one OSS element per repo whose RepoSignature contains fp, in
\* whatever order the meta results of the repos were merged.
C11_UniqueListsEveryRepo ==
    MetaWritten =>
        /\ DOMAIN uniqueFuncs = UNION {DOMAIN initialSigs[R] : R \in Repos}
        /\ \A fp \in DOMAIN uniqueFuncs :
              /\ OSSList(fp) = ReposWith(fp)
              /\ Len(uniqueFuncs[fp]) = Cardinality(ReposWith(fp))

(***************************************************************************)
(* The detector (src/src/detector/Detector.py): detector(inputDict,        *)
(* inputRepo) submits process_single_component for every component of the  *)
(* component database and writes the records as the futures complete.      *)
(***************************************************************************)
DetMaxTags == 3
TargetPrivate == 3

\* theta = 0.1 of Detector.py
match_theta_num == 1
match_theta_den == 10

\* relpaths: "a", "da" (which has "a" as a substring) and "b"
PathA == <<"a">>
PathDA == <<"d", "a">>
PathB == <<"b">>

\* opath in tpath, on str
str_in(a, b) == \E i \in 0..(Len(b) - Len(a)) : SubSeq(b, i + 1, i + Len(a)) = a

\* the components readComponentDB finds in componentDB/
Components == {R \in Repos : componentDB[R] # NotWritten}

\* the keys of inputDict
TargetKeys == {inputDict[k][1] : k \in DOMAIN inputDict}
\* inputDict[thash]
TargetPaths(thash) == inputDict[CHOOSE k \in DOMAIN inputDict : inputDict[k][1] = thash][2]

\* commonFunc: the fps of Fps in componentDB[OSS] that are keys of inputDict
commonFunc(R) == (DOMAIN componentDB[R]) \cap TargetKeys
\* comOSSFuncs: the private fps are in componentDB[OSS] too
comOSSFuncs(R) == Cardinality(commonFunc(R)) + tpriv[R]

\* variant: the threshold is not applied
match_ok_Always(c, a) == TRUE

\* (comOSSFuncs/totOSSFuncs) >= theta
match_ok(c, a) == match_theta_den * c >= match_theta_num * a

\* math.log(float(totVers)/float(len(verlst))), in thousandths
weight(V, k) ==
    CASE V = k -> 0
      [] V = 2 * k -> 693
      [] V = 3 /\ k = 1 -> 1099
      [] V = 3 /\ k = 2 -> 405
      [] V = 4 /\ k = 1 -> 1386
      [] V = 4 /\ k = 3 -> 288

\* weightDict[hashval] of <R>_weights
weightDict(R, h) == weight(totVers(R), Len(initialSigs[R][h]))

\* allVerList of readAllVers: the versions of <R>_idx in file order, as idx values
allVerList(R) == [i \in 1..totVers(R) |-> i - 1]

RECURSIVE verPredict(_, _, _)
\* verPredictDict[v] after the loop over the entries of <R>_sig
verPredict(R, v, hs) ==
    IF hs = {} THEN 0
    ELSE LET h == CHOOSE e \in hs : TRUE
         IN (IF h \in commonFunc(R) /\ (\E k \in DOMAIN initialSigs[R][h] : initialSigs[R][h][k] = v)
             THEN weightDict(R, h) ELSE 0)
            + verPredict(R, v, hs \ {h})

\* verPredictDict.items()
verPredictItems(R) ==
    [i \in 1..totVers(R) |-> <<allVerList(R)[i], verPredict(R, allVerList(R)[i], DOMAIN initialSigs[R])>>]

RECURSIVE insort_reverse(_, _)
insort_reverse(s, it) ==
    IF s = <<>> THEN <<it>>
    ELSE IF s[1][2] < it[2] THEN <<it>> \o s
    ELSE <<s[1]>> \o insort_reverse(Tail(s), it)

RECURSIVE sorted_reverse(_)
\* sorted(items, key=lambda x: x[1], reverse=True): stable, items of equal key keep their order
sorted_reverse(items) ==
    IF items = <<>> THEN <<>>
    ELSE insort_reverse(sorted_reverse(SubSeq(items, 1, Len(items) - 1)), items[Len(items)])

\* variant: of the items of maximal key the last is taken
predicted_LastMax(items) ==
    LET best == {i \in DOMAIN items : \A j \in DOMAIN items : items[j][2] <= items[i][2]}
    IN items[CHOOSE i \in best : \A j \in best : j <= i][1]

\* predictedVer = sortedByWeight[0][0]
predicted(items) == sorted_reverse(items)[1][1]

predictedVer(R) == predicted(verPredictItems(R))

\* a body line of fuzzy_<ver>.hidx split at the tabs: the fp, then its relpaths
hidx_line(R, ohash) == <<ohash>> \o relpaths[R][ohash]

\* predictOSSDict[ohash] = opath.split('\t') with opath = eachLine.split('\t')[1]
predictOSSDict(R, ohash) == <<hidx_line(R, ohash)[2]>>

\* the fps of Fps that are keys of predictOSSDict
PredFps(R, v) == {h \in Fps : HasFp(tagIndex[R][v + 1], h)}

\* the first thash of inputDict with int(tlsh.diffxlen(ohash, thash)) <= 30, 0 if there is none
first_hit(ohash) ==
    LET near_keys == {k \in DOMAIN inputDict : diffxlen_le_30(ohash, inputDict[k][1])}
    IN IF near_keys = {} THEN 0 ELSE CHOOSE k \in near_keys : \A j \in near_keys : k <= j

\* variant: an fp that is not a key of inputDict is never counted as modified
usage_NoModified(ohash) == IF ohash \in TargetKeys THEN "used" ELSE "unused"

\* how the loop over predictOSSDict counts ohash
usage(ohash) ==
    IF ohash \in TargetKeys THEN "used"
    ELSE IF first_hit(ohash) # 0 THEN "modified"
    ELSE "unused"

\* nflag: some opath is a substring of some tpath
nflag(opaths, tpaths) ==
    \E i \in DOMAIN opaths : \E j \in DOMAIN tpaths : str_in(opaths[i], tpaths[j])

\* the paths of the target fp ohash was matched with
matched_paths(ohash) ==
    IF ohash \in TargetKeys THEN TargetPaths(ohash) ELSE inputDict[first_hit(ohash)][2]

strChange(R, v) ==
    \E ohash \in PredFps(R, v) :
        /\ usage(ohash) # "unused"
        /\ ~nflag(predictOSSDict(R, ohash), matched_paths(ohash))

\* the fields of the result line; the private fps of the predicted version are used if the
\* target has them and unused if not
result_line(R, v) ==
    [repo |-> R,
     ver |-> v,
     used |-> Cardinality({h \in PredFps(R, v) : usage(h) = "used"}) + tpriv[R],
     unused |-> Cardinality({h \in PredFps(R, v) : usage(h) = "unused"}) + (private[R] - tpriv[R]),
     modified |-> Cardinality({h \in PredFps(R, v) : usage(h) = "modified"}),
     relocated |-> strChange(R, v)]

\* variant: an error of the evaluation is not turned into None
on_error_Record(R) == result_line(R, 0)

\* except Exception: return None
on_error(R) == None

\* what process_single_component returns for component R
component_result(R) ==
    IF R \notin DOMAIN aveFuncs THEN on_error(R)
    ELSE IF aveFuncs[R] = 0 THEN None
    ELSE IF ~match_ok(comOSSFuncs(R), aveFuncs[R]) THEN None
    ELSE IF unreadable[R] THEN on_error(R)
    ELSE result_line(R, predictedVer(R))

preoutput == <<initialSigs, funcDate, verIDX, metaDone, unique, aveFuncJson, uniqueFuncs, aveFuncs,
               segmented, componentDB>>

\* detector(): the result file is opened for writing and every component submitted
detector_submit ==
    /\ dpc = "idle"
    /\ dpc' = "collect"
    /\ resultFile' = <<>>
    /\ fstate' = [R \in Repos |-> IF R \in Components THEN "pending" ELSE "none"]
    /\ UNCHANGED <<colpart, preinput, preoutput, detinput, fresult>>

\* a pool process evaluates one component
process_single_component(R) ==
    /\ fstate[R] = "pending"
    /\ fstate' = [fstate EXCEPT ![R] = "done"]
    /\ fresult' = [fresult EXCEPT ![R] = component_result(R)]
    /\ UNCHANGED <<colpart, preinput, preoutput, detinput, dpc, resultFile>>

\* one turn of the as_completed loop: the record, if there is one, is written
detector_collect(R) ==
    /\ dpc = "collect"
    /\ fstate[R] = "done"
    /\ fstate' = [fstate EXCEPT ![R] = "collected"]
    /\ resultFile' = IF fresult[R] # None THEN Append(resultFile, fresult[R]) ELSE resultFile
    /\ UNCHANGED <<colpart, preinput, preoutput, detinput, dpc, fresult>>

\* the loop is over, the pool and the file are closed
detector_done ==
    /\ dpc = "collect"
    /\ \A R \in Repos : fstate[R] \in {"none", "collected"}
    /\ dpc' = "done"
    /\ UNCHANGED <<colpart, preinput, preoutput, detinput, fstate, fresult, resultFile>>

\* the items of a target map
TargetPathLists == {<<PathDA>>, <<PathB>>}
TargetMaps ==
    {<<>>}
    \cup {<< <<h, p>> >> : h \in Fps, p \in TargetPathLists}
    \cup {<< <<h, p>>, <<g, q>> >> : h \in Fps, g \in Fps, p \in TargetPathLists, q \in TargetPathLists}

\* the meta files as saveMetaInfos writes them when the result of `last` is merged last
uniqueAfter(last) ==
    LET first == CHOOSE r \in Repos : r # last
    IN unique_merge("full", unique_merge("full", EmptyMap, first), last)

(***************************************************************************)
(* The detector over the database Preprocessor_full.py builds from repo x  *)
(* with DetMaxTags tags at most and repo y with one tag, none dated.       *)
(***************************************************************************)
InitDet ==
    /\ repoKind = [r \in Repos |-> "ok"]
    /\ repoTags = [r \in Repos |-> <<>>]
    /\ InitFs
    /\ InitWorkers
    /\ InitNoMain
    /\ InitNoEx
    /\ InitNoCore
    /\ impl = "full"
    /\ \E n \in 1..DetMaxTags : \E tx \in [1..n -> TagLines] :
          /\ tagIndex = [r \in Repos |-> IF r = "x" THEN tx ELSE << <<"g">> >>]
          /\ tagDate = [r \in Repos |-> IF r = "x" THEN [i \in 1..n |-> Undated] ELSE <<Undated>>]
          /\ verNames = [r \in Repos |-> DefaultNames(IF r = "x" THEN n ELSE 1)]
    /\ private \in {[r \in Repos |-> IF r = "x" THEN p ELSE 0] : p \in {0, PrivateFuncs}}
    /\ near \in BOOLEAN
    /\ initialSigs = [r \in Repos |->
                        LET fps == {fp \in Fps : signature(impl, tagIndex[r], fp, 1) # <<>>}
                        IN [fp \in fps |-> signature(impl, tagIndex[r], fp, 1)]]
    /\ funcDate = [r \in Repos |->
                      [fp \in DOMAIN initialSigs[r] |->
                          func_date(temp_date_dict(impl, tagIndex[r], tagDate[r], fp, 1))]]
    /\ verIDX = [r \in Repos |-> ver_idx_file(verTempLst(r))]
    /\ metaDone = Repos
    /\ \E last \in Repos : unique = uniqueAfter(last)
    /\ uniqueFuncs = unique
    /\ aveFuncJson = [r \in Repos |-> totFuncs(r) \div totVers(r)]
    /\ aveFuncs = aveFuncJson
    /\ segmented = Repos
    /\ componentDB = [S \in Repos |->
                         [fp \in DOMAIN initialSigs[S] \ removedFuncs(S) |-> initialSigs[S][fp]]]
    /\ relpaths \in {[r \in Repos |-> [fp \in Fps |-> IF r = "x" /\ fp = "f" THEN pf ELSE <<PathA>>]] :
                        pf \in {<<PathA>>, <<PathB, PathA>>}}
    /\ inputDict \in {t \in TargetMaps : Len(t) = 2 => t[1][1] # t[2][1]}
    /\ tpriv \in {[r \in Repos |-> IF r = "x" THEN k ELSE 0] :
                     k \in {0} \cup (IF private["x"] > 0 THEN {TargetPrivate} ELSE {})}
    /\ unreadable \in {u \in [Repos -> BOOLEAN] : ~(u["x"] /\ u["y"])}
    /\ dpc = "idle"
    /\ fstate = [r \in Repos |-> "none"]
    /\ fresult = [r \in Repos |-> None]
    /\ resultFile = <<>>

NextDet ==
    \/ detector_submit
    \/ \E R \in Repos : process_single_component(R)
    \/ \E R \in Repos : detector_collect(R)
    \/ detector_done

SpecDet == InitDet /\ [][NextDet]_vars

(***************************************************************************)
(* Claims about the detector.                                              *)
(***************************************************************************)
\* the lines of the result file that are records of component R
RecordsOf(R) == {k \in DOMAIN resultFile : resultFile[k].repo = R}

\* |component_fps(R) /\ keys(target_map)|, the private fps of R included
CommonCount(R) == Cardinality({h \in DOMAIN componentDB[R] : h \in TargetKeys}) + tpriv[R]

\* ave_funcs[R] != 0 and |common| / ave_funcs[R] >= 0.1
Covered(R) ==
    /\ R \in DOMAIN aveFuncs
    /\ aveFuncs[R] # 0
    /\ 10 * CommonCount(R) >= aveFuncs[R]

\* C12: a component whose evaluation meets no error has exactly one record in the result
\* file once its future has been handled if ave_funcs[R] != 0 and the share of its fps
\* that are keys of the target map is at least 0.1 of ave_funcs[R]; a component for which
\* this does not hold never has a record.
C12_RecordIffCovered ==
    \A R \in Repos :
        /\ ~Covered(R) => RecordsOf(R) = {}
        /\ (Covered(R) /\ ~unreadable[R] /\ fstate[R] = "collected") => Cardinality(RecordsOf(R)) = 1

\* both sides of the threshold: x with 10 * |common| = ave_funcs has a record, y has none
C12_Witness ==
    /\ dpc = "done"
    /\ ~unreadable["x"] /\ ~unreadable["y"]
    /\ CommonCount("x") > 0
    /\ aveFuncs["x"] = 10 * CommonCount("x")
    /\ RecordsOf("x") # {}
    /\ aveFuncs["y"] # 0
    /\ RecordsOf("y") = {}

\* the weighted score of version v of R: the sum of weights[h] over the common fps h whose
\* vers contain v
Score(R, v) == verPredict(R, v, DOMAIN initialSigs[R])

\* C13: the version of every record has a maximal weighted score among the versions of
\* its component, and every version before it in tag-index order has a smaller score:
\* of the versions that tie for the maximum the first in tag-index order is predicted.
C13_FirstMaximalVersion ==
    \A k \in DOMAIN resultFile :
        LET R == resultFile[k].repo
            v == resultFile[k].ver
        IN /\ v \in 0..(totVers(R) - 1)
           /\ \A u \in 0..(totVers(R) - 1) : Score(R, u) <= Score(R, v)
           /\ \A u \in 0..(v - 1) : Score(R, u) < Score(R, v)

\* three tags, the second and the third tie above the first: the record names the second
C13_Witness ==
    \E k \in DOMAIN resultFile :
        /\ resultFile[k].repo = "x"
        /\ totVers("x") = 3
        /\ Score("x", 0) < Score("x", 1)
        /\ Score("x", 1) = Score("x", 2)
        /\ resultFile[k].ver = 1

\* some key of the target map is at distance <= 30 from h
NearTarget(h) == \E t \in TargetKeys : diffxlen_le_30(h, t)

\* C14: in every record the three counters partition the fps of the TagIndex of the
\* predicted version (those of Fps and the private ones): used counts the fps that are
\* keys of the target map, modified counts once each fp that is no key but has a target
\* fp within distance 30, unused counts the remaining ones.
C14_UsagePartition ==
    \A k \in DOMAIN resultFile :
        LET R == resultFile[k].repo
            pred == {h \in Fps : HasFp(tagIndex[R][resultFile[k].ver + 1], h)}
        IN /\ resultFile[k].used = Cardinality(pred \cap TargetKeys) + tpriv[R]
           /\ resultFile[k].modified = Cardinality({h \in pred \ TargetKeys : NearTarget(h)})
           /\ resultFile[k].unused
                = Cardinality({h \in pred \ TargetKeys : ~NearTarget(h)}) + (private[R] - tpriv[R])
           /\ resultFile[k].used + resultFile[k].modified + resultFile[k].unused
                = Cardinality(pred) + private[R]

\* a record with all three kinds of fps
C14_Witness ==
    \E k \in DOMAIN resultFile :
        /\ resultFile[k].used > tpriv[resultFile[k].repo]
        /\ resultFile[k].modified > 0
        /\ resultFile[k].unused > 0

\* some relpath of the line of h in the TagIndex of R is a substring of a relpath of the
\* target fp h was matched with
SomeRelpathFound(R, h) ==
    \E i \in DOMAIN relpaths[R][h] :
        \E j \in DOMAIN matched_paths(h) : str_in(relpaths[R][h][i], matched_paths(h)[j])

\* C15: the relocated flag of a record is True if and only if some fp of the predicted
\* version that was counted as used or modified has no relpath on its TagIndex line that is
\* a substring of a relpath of the matching target fp.
C15_RelocatedOverAllRelpaths ==
    \A k \in DOMAIN resultFile :
        LET R == resultFile[k].repo
            pred == {h \in Fps : HasFp(tagIndex[R][resultFile[k].ver + 1], h)}
        IN resultFile[k].relocated
             = (\E h \in pred : (h \in TargetKeys \/ NearTarget(h)) /\ ~SomeRelpathFound(R, h))

\* the evaluation of R opens the files of R and one of them cannot be read or decoded
EvaluationFails(R) == Covered(R) /\ unreadable[R]

\* C16: a component whose evaluation raises an I/O or decoding error never has a record
\* in the result file, and when the detector is done every other component that passes
\* the threshold has its record there.
C16_ErrorOmitsOnlyThatRecord ==
    \A R \in Repos :
        /\ EvaluationFails(R) => RecordsOf(R) = {}
        /\ (dpc = "done" /\ Covered(R) /\ ~EvaluationFails(R)) => Cardinality(RecordsOf(R)) = 1

\* the evaluation of x failed, y has its record
C16_Witness ==
    /\ dpc = "done"
    /\ EvaluationFails("x")
    /\ RecordsOf("x") = {}
    /\ Covered("y")
    /\ RecordsOf("y") # {}

(***************************************************************************)
(* hashing(repo_path) and indexing of the collector: a thread pool runs    *)
(* process_single_file for every source file, the results are merged in    *)
(* completion order, and the TagIndex is written from the merged map.      *)
(***************************************************************************)
MaxFiles == 2
StampMod == 2

\* the values int(time.time() * 1000000) % 1000000 takes
Stamps == 0..(StampMod - 1)
\* the values threading.get_ident() takes
Idents == 1..MaxFiles

\* the hashes of the functions of a source file; "TNULL" for a body too short to hash
FileFuncs == {<<>>, <<"f">>, <<"TNULL">>, <<"f", "g">>, <<"f", "f">>, <<"f", "TNULL">>}

\* file_path of file k, and file_path.replace(base_path, ""); files of the same number have
\* the same basename in every repo
basename(k) == k
stored_path(k) == IF k = 1 THEN PathA ELSE IF k = 2 THEN PathB ELSE PathDA

\* what no step of hashing or indexing changes
nonex == <<repoKind, repoTags, corevars, truncated, fsvars, status_dict, wvars, mvars, prevars, detvars>>

RECURSIVE file_results(_, _)
\* results of process_single_file: a pair for every function whose hash is kept
file_results(funcs, path) ==
    IF funcs = <<>> THEN <<>>
    ELSE (IF funcs[1] \in {"TNULL", "", "NULL"} THEN <<>> ELSE << <<funcs[1], path>> >>)
         \o file_results(Tail(funcs), path)

\* variant: every function ctags lists is counted
file_func_count_All(funcs) == Len(funcs)

\* func_count of process_single_file: incremented with every results.append
file_func_count(funcs) == Len(file_results(funcs, PathA))

\* return [], 0, 0, 0
EmptyResult(t) == [t EXCEPT !.state = "done", !.results = <<>>, !.fn_cnt = 0]

\* hashing: the pool is created and every file submitted
hashing_submit(p) ==
    /\ hpc[p] = "idle"
    /\ hpc' = [hpc EXCEPT ![p] = "collect"]
    /\ task' = [task EXCEPT ![p] = [k \in DOMAIN exFuncs[p] |-> [NoTask EXCEPT !.state = "pending"]]]
    /\ UNCHANGED <<nonex, exFuncs, ident, completed, result_dict, func_count, tempDirs, tempFiles,
                   tagFile>>

\* the threads of the pool of p that run no call
FreeThreads(p) ==
    {t \in DOMAIN ident[p] :
        \A k \in DOMAIN task[p] : task[p][k].state \in {"converted", "extracted"} => task[p][k].thread # t}

\* temp_dir_name = f'centris_{thread_id}_{int(time.time() * 1000000) % 1000000}'
temp_dir_name(thread_id, stamp) == <<thread_id, stamp>>

\* process_single_file up to the return of convert_to_utf8: the file cannot be read (the
\* call returns [], 0, 0, 0), or the temp directory is made and the temp file written
convert_to_utf8(p, k) ==
    /\ k \in DOMAIN task[p]
    /\ task[p][k].state = "pending"
    /\ \E t \in FreeThreads(p) :
          \/ /\ task' = [task EXCEPT ![p][k] = EmptyResult(@)]
             /\ completed' = [completed EXCEPT ![p] = Append(@, k)]
             /\ UNCHANGED <<tempDirs, tempFiles>>
          \/ \E stamp \in Stamps :
                LET dir == temp_dir_name(ident[p][t], stamp)
                IN /\ task' = [task EXCEPT ![p][k] = [@ EXCEPT !.state = "converted", !.thread = t,
                                                                !.dir = dir]]
                   /\ tempDirs' = tempDirs \cup {dir}
                   /\ tempFiles' = {e \in tempFiles : ~(e[1] = dir /\ e[2] = basename(k))}
                                      \cup {<<dir, basename(k), <<p, k>>>>}
                   /\ UNCHANGED completed
    /\ UNCHANGED <<nonex, exFuncs, ident, hpc, result_dict, func_count, tagFile>>

\* process_single_file from the read of the temp file to the return statement: the open
\* fails if the file is gone, ctags may time out, else the functions of the content of
\* the temp file are hashed
extract_functions(p, k) ==
    /\ k \in DOMAIN task[p]
    /\ task[p][k].state = "converted"
    /\ LET mine == {e \in tempFiles : e[1] = task[p][k].dir /\ e[2] = basename(k)}
       IN \/ /\ mine = {}
             /\ task' = [task EXCEPT ![p][k] = [@ EXCEPT !.state = "extracted"]]
          \/ /\ mine # {}
             /\ task' = [task EXCEPT ![p][k] = [@ EXCEPT !.state = "extracted"]]
          \/ \E e \in mine :
                LET funcs == exFuncs[e[3][1]][e[3][2]]
                IN task' = [task EXCEPT ![p][k] =
                              [@ EXCEPT !.state = "extracted",
                                        !.results = file_results(funcs, stored_path(k)),
                                        !.fn_cnt = file_func_count(funcs)]]
    /\ UNCHANGED <<nonex, exFuncs, ident, hpc, completed, result_dict, func_count, tempDirs,
                   tempFiles, tagFile>>

\* the finally clause of process_single_file: the temp file is removed if it exists, the
\* temp directory if it exists and is empty; the future completes, its thread is free and
\* the locals of the call are gone
cleanup_temp(p, k) ==
    /\ k \in DOMAIN task[p]
    /\ task[p][k].state = "extracted"
    /\ LET dir == task[p][k].dir
           rest == {e \in tempFiles : ~(e[1] = dir /\ e[2] = basename(k))}
       IN /\ tempFiles' = rest
          /\ tempDirs' = IF \E e \in rest : e[1] = dir THEN tempDirs ELSE tempDirs \ {dir}
    /\ task' = [task EXCEPT ![p][k] = [@ EXCEPT !.state = "done", !.thread = 0, !.dir = <<>>]]
    /\ completed' = [completed EXCEPT ![p] = Append(@, k)]
    /\ UNCHANGED <<nonex, exFuncs, ident, hpc, result_dict, func_count, tagFile>>

RECURSIVE merge_results(_, _)
\* result_dict[func_hash].append(file_path) for every pair of results
merge_results(d, results) ==
    IF results = <<>> THEN d
    ELSE LET h == results[1][1]
             d1 == [x \in (DOMAIN d) \cup {h} |->
                       IF x = h THEN (IF h \in DOMAIN d THEN Append(d[h], results[1][2])
                                      ELSE <<results[1][2]>>)
                       ELSE d[x]]
         IN merge_results(d1, Tail(results))

\* one turn of the as_completed loop of hashing
hashing_merge(p) ==
    /\ hpc[p] = "collect"
    /\ completed[p] # <<>>
    /\ LET k == Head(completed[p])
       IN /\ result_dict' = [result_dict EXCEPT ![p] = merge_results(@, task[p][k].results)]
          /\ func_count' = [func_count EXCEPT ![p] = @ + task[p][k].fn_cnt]
          /\ task' = [task EXCEPT ![p][k] = [@ EXCEPT !.state = "merged"]]
    /\ completed' = [completed EXCEPT ![p] = Tail(@)]
    /\ UNCHANGED <<nonex, exFuncs, ident, hpc, tempDirs, tempFiles, tagFile>>

\* indexing(resDict, title, filePath), called if len(resDict) > 0: the title has the
\* function count, a line is written for every hash that is not '' or ' '
write_tag_index(p) ==
    /\ hpc[p] = "collect"
    /\ \A k \in DOMAIN task[p] : task[p][k].state = "merged"
    /\ hpc' = [hpc EXCEPT ![p] = "done"]
    /\ tagFile' = IF DOMAIN result_dict[p] = {} THEN tagFile
                  ELSE [tagFile EXCEPT ![p] =
                          [func_count |-> func_count[p],
                           body |-> [h \in (DOMAIN result_dict[p]) \ {"", " "} |-> result_dict[p][h]]]]
    /\ UNCHANGED <<nonex, exFuncs, ident, task, completed, result_dict, func_count, tempDirs,
                   tempFiles>>

(***************************************************************************)
(* One call of hashing over a tree of MaxFiles source files at most, and   *)
(* the indexing that follows it.                                           *)
(***************************************************************************)
InitHash ==
    /\ repoKind = [r \in Repos |-> "ok"]
    /\ repoTags = [r \in Repos |-> <<>>]
    /\ InitFs
    /\ InitWorkers
    /\ InitNoMain
    /\ InitNoPre
    /\ InitNoCore
    /\ \E n \in 1..MaxFiles :
          /\ exFuncs \in {[p \in Procs |-> IF p = 1 THEN fs ELSE EmptyMap] : fs \in [1..n -> FileFuncs]}
          /\ ident = [p \in Procs |-> IF p = 1 THEN [t \in 1..n |-> t] ELSE EmptyMap]
    /\ hpc = [p \in Procs |-> IF p = 1 THEN "idle" ELSE "none"]
    /\ task = [p \in Procs |-> EmptyMap]
    /\ completed = [p \in Procs |-> <<>>]
    /\ result_dict = [p \in Procs |-> EmptyMap]
    /\ func_count = [p \in Procs |-> 0]
    /\ tempDirs = {}
    /\ tempFiles = {}
    /\ tagFile = [p \in Procs |-> NotWritten]

NextHash ==
    \/ \E p \in Procs : hashing_submit(p)
    \/ \E p \in Procs : \E k \in 1..MaxFiles : convert_to_utf8(p, k)
    \/ \E p \in Procs : \E k \in 1..MaxFiles : extract_functions(p, k)
    \/ \E p \in Procs : \E k \in 1..MaxFiles : cleanup_temp(p, k)
    \/ \E p \in Procs : hashing_merge(p)
    \/ \E p \in Procs : write_tag_index(p)

SpecHash == InitHash /\ [][NextHash]_vars

(***************************************************************************)
(* Claims about hashing and indexing.                                      *)
(***************************************************************************)
RECURSIVE RelpathSum(_, _)
\* the number of relpaths on the lines of the hashes hs of a TagIndex body
RelpathSum(body, hs) ==
    IF hs = {} THEN 0
    ELSE LET h == CHOOSE x \in hs : TRUE
         IN Len(body[h]) + RelpathSum(body, hs \ {h})

\* C17: the func_count of the header of every TagIndex file written equals the number of
\* relpaths on its body lines, in whatever order the extraction workers completed and
\* whichever of them failed.
C17_FuncCountIsRelpathSum ==
    \A p \in Procs :
        tagFile[p] # NotWritten =>
            tagFile[p].func_count = RelpathSum(tagFile[p].body, DOMAIN tagFile[p].body)

\* a TagIndex written after the worker of the first file failed and a function of the
\* second file was left out for its hash
C17_Witness ==
    /\ tagFile[1] # NotWritten
    /\ DOMAIN exFuncs[1] = {1, 2}
    /\ task[1][1].results = <<>>
    /\ exFuncs[1][1] # <<>>
    /\ exFuncs[1][2] = <<"f", "TNULL">>
    /\ tagFile[1].func_count = 1

(***************************************************************************)
(* The signature builder over the files of result/x/, whose tags are       *)
(* IdxMaxTags at most of IdxTagNames, listed in any order.                 *)
(***************************************************************************)
IdxMaxTags == 3

\* the tags "1", "10", "2" and "fuzzy_1"
IdxTagNames == {<<"1">>, <<"1", "0">>, <<"2">>, FuzzyPrefix \o <<"1">>}

InitIdx ==
    /\ InitStages
    /\ impl \in {"full", "lite"}
    /\ \E n \in 1..IdxMaxTags :
          /\ verNames \in {[r \in Repos |-> IF r = "x" THEN ns ELSE <<DigitName(1)>>] :
                             ns \in {q \in [1..n -> IdxTagNames] :
                                        \A i \in 1..n : \A j \in 1..n : q[i] = q[j] => i = j}}
          /\ tagIndex \in {[r \in Repos |-> IF r = "x" THEN tx ELSE << <<"g", "f">> >>] :
                             tx \in [1..n -> {<<"f">>, <<"g", "f">>}]}
          /\ tagDate = [r \in Repos |-> IF r = "x" THEN [i \in 1..n |-> Undated] ELSE <<Undated>>]
    /\ private = [r \in Repos |-> 0]
    /\ near = FALSE

NextIdx == \E R \in Repos : redundancyElimination(R)

SpecIdx == InitIdx /\ [][NextIdx]_vars

\* the tags of the files of result/<R>/: the basenames without "fuzzy_" and ".hidx"
FileTags(R) == {versionName_Strip(hidx_file_name(verNames[R][j])) : j \in DOMAIN verNames[R]}

\* C18: the tags of verIDX/<R>_idx are the tags of the fuzzy_<tag>.hidx files of
\* result/<R>/, the idx values are exactly 0..V-1, and a tag that is lexicographically
\* smaller than another has the smaller idx.
C18_VerIdxMatchesFiles ==
    \A R \in Repos :
        Built(R) =>
            LET E == verIDX[R]
            IN /\ {E[k].ver : k \in DOMAIN E} = FileTags(R)
               /\ {E[k].idx : k \in DOMAIN E} = 0..(Cardinality(FileTags(R)) - 1)
               /\ \A k \in DOMAIN E : \A m \in DOMAIN E :
                     str_lt(E[k].ver, E[m].ver) => E[k].idx < E[m].idx

\* C19: in every RepoSignature written, the vers list of every fp is strictly increasing
\* and each of its elements is a tag index smaller than V, the number of tags of the repo
\* (of files of result/<R>/).
C19_VersIncreasingBelowV ==
    \A R \in Repos :
        Built(R) =>
            \A fp \in DOMAIN initialSigs[R] :
                LET vs == initialSigs[R][fp]
                IN /\ \A k \in 1..(Len(vs) - 1) : vs[k] < vs[k + 1]
                   /\ \A k \in DOMAIN vs : vs[k] \in 0..(Len(verNames[R]) - 1)

\* three files listed out of version order, an fp of the first and of the last version
C19_Witness ==
    /\ Built("x")
    /\ Len(verNames["x"]) = 3
    /\ str_lt(verNames["x"][2], verNames["x"][1])
    /\ \E fp \in DOMAIN initialSigs["x"] : initialSigs["x"][fp] = <<0, 2>>

(***************************************************************************)
(* The processes of the collector's pool, each in hashing over the tree of *)
(* its own repo, which has one source file; the threads of different       *)
(* processes may have the same ident.                                      *)
(***************************************************************************)
InitTemp ==
    /\ repoKind = [r \in Repos |-> "ok"]
    /\ repoTags = [r \in Repos |-> <<>>]
    /\ InitFs
    /\ InitWorkers
    /\ InitNoMain
    /\ InitNoPre
    /\ InitNoCore
    /\ exFuncs = [p \in Procs |-> [k \in {1} |-> IF p = 1 THEN <<"f">> ELSE <<"g">>]]
    /\ ident \in [Procs -> [{1} -> Idents]]
    /\ hpc = [p \in Procs |-> "idle"]
    /\ task = [p \in Procs |-> EmptyMap]
    /\ completed = [p \in Procs |-> <<>>]
    /\ result_dict = [p \in Procs |-> EmptyMap]
    /\ func_count = [p \in Procs |-> 0]
    /\ tempDirs = {}
    /\ tempFiles = {}
    /\ tagFile = [p \in Procs |-> NotWritten]

SpecTemp == InitTemp /\ [][NextHash]_vars

\* the calls of process_single_file that have a temp directory and have not yet cleaned up
ActiveCalls ==
    {c \in Procs \X (1..MaxFiles) :
        c[2] \in DOMAIN task[c[1]] /\ task[c[1]][c[2]].state \in {"converted", "extracted"}}

\* C20: no two extraction workers that run at the same time, in whatever processes, use
\* the same transcoding temp directory.
C20_TempDirsDisjoint ==
    \A c \in ActiveCalls : \A d \in ActiveCalls :
        c # d => task[c[1]][c[2]].dir # task[d[1]][d[2]].dir

(***************************************************************************)
(* core.cache.Cache: every method holds self._lock for the whole of its    *)
(* body, so the calls of several threads are interleavings of the actions  *)
(* below.                                                                  *)
(***************************************************************************)
CacheMaxSize == 2
CacheKeyCount == 3
CacheMaxClock == 2
expire_time == 1

CacheKeys == 1..CacheKeyCount
CacheValues == {"v1", "v2"}

\* what no method of Cache changes
noncache == <<repoKind, repoTags, truncated, fsvars, status_dict, wvars, mvars, prevars, detvars, exvars, pmvars>>

\* a dict without key k; the items of a dict without those of key k
dict_del(d, k) == [x \in (DOMAIN d) \ {k} |-> d[x]]
items_del(items, k) == SelectSeq(items, LAMBDA it : it[1] # k)
\* d[k] = v for a dict kept as the list of its items: a key that is there keeps its place
items_set(items, k, v) ==
    IF \E i \in 1..Len(items) : items[i][1] = k
    THEN [i \in 1..Len(items) |-> IF items[i][1] = k THEN <<k, v>> ELSE items[i]]
    ELSE Append(items, <<k, v>>)
items_get(items, k) == items[CHOOSE i \in 1..Len(items) : items[i][1] = k][2]

\* min(self._access_times.items(), key=lambda x: x[1])[0]: the first of the oldest
oldest_key(items) ==
    items[CHOOSE i \in 1..Len(items) :
            /\ \A j \in 1..Len(items) : items[i][2] <= items[j][2]
            /\ \A j \in 1..(i - 1) : items[j][2] > items[i][2]][1]

\* len(self._cache) >= self.max_size
cache_full(n) == n >= max_size

\* time.time() moves on
CacheTick ==
    /\ max_size > 0
    /\ clock < CacheMaxClock
    /\ clock' = clock + 1
    /\ UNCHANGED <<noncache, max_size, persistent, cache, access_times, cache_files>>

\* Cache.get(key); rm: os.remove and pickle.load go through
CacheGet(key) ==
    /\ max_size > 0
    /\ IF key \in DOMAIN cache /\ clock - items_get(access_times, key) <= expire_time
       THEN /\ access_times' = items_set(access_times, key, clock)
            /\ UNCHANGED <<cache, cache_files>>
       ELSE LET c1 == dict_del(cache, key)
                a1 == items_del(access_times, key)
            IN IF persistent /\ key \in DOMAIN cache_files
               THEN \/ /\ clock - cache_files[key][1] <= expire_time
                       /\ cache' = [x \in (DOMAIN c1) \cup {key} |->
                                       IF x = key THEN cache_files[key][2] ELSE c1[x]]
                       /\ access_times' = items_set(a1, key, clock)
                       /\ UNCHANGED cache_files
                    \/ /\ clock - cache_files[key][1] > expire_time
                       /\ cache' = c1
                       /\ access_times' = a1
                       /\ cache_files' = dict_del(cache_files, key)
                    \/ /\ cache' = c1
                       /\ access_times' = a1
                       /\ UNCHANGED cache_files
               ELSE /\ cache' = c1
                    /\ access_times' = a1
                    /\ UNCHANGED cache_files
    /\ UNCHANGED <<noncache, max_size, persistent, clock>>

\* Cache.put(key, value), with _evict_lru and _save_to_file
CachePut(key, value) ==
    /\ max_size > 0
    /\ LET evict == key \notin DOMAIN cache /\ cache_full(Cardinality(DOMAIN cache))
                       /\ access_times # <<>>
           old == oldest_key(access_times)
           c1 == IF evict THEN dict_del(cache, old) ELSE cache
           a1 == IF evict THEN items_del(access_times, old) ELSE access_times
           f1 == IF evict /\ persistent THEN dict_del(cache_files, old) ELSE cache_files
       IN /\ cache' = [x \in (DOMAIN c1) \cup {key} |-> IF x = key THEN value ELSE c1[x]]
          /\ access_times' = items_set(a1, key, clock)
          /\ cache_files' = IF persistent
                            THEN [x \in (DOMAIN f1) \cup {key} |->
                                    IF x = key THEN <<clock, value>> ELSE f1[x]]
                            ELSE f1
    /\ UNCHANGED <<noncache, max_size, persistent, clock>>

\* Cache.remove(key)
CacheRemove(key) ==
    /\ max_size > 0
    /\ key \in DOMAIN cache
    /\ cache' = dict_del(cache, key)
    /\ access_times' = items_del(access_times, key)
    /\ cache_files' = IF persistent THEN dict_del(cache_files, key) ELSE cache_files
    /\ UNCHANGED <<noncache, max_size, persistent, clock>>

\* a Cache over a cache_dir that holds what an earlier run of the same configuration left
InitCache ==
    /\ repoKind = [r \in Repos |-> "ok"]
    /\ repoTags = [r \in Repos |-> <<>>]
    /\ InitFs
    /\ InitWorkers
    /\ InitNoMain
    /\ InitNoPre
    /\ InitNoEx
    /\ InitNoPM
    /\ max_size \in 1..CacheMaxSize
    /\ persistent \in BOOLEAN
    /\ cache = EmptyMap
    /\ access_times = <<>>
    /\ \E K \in SUBSET CacheKeys :
          /\ Cardinality(K) <= max_size
          /\ persistent \/ K = {}
          /\ cache_files = [k \in K |-> <<0, "v1">>]
    /\ clock = 0

NextCache ==
    \/ CacheTick
    \/ \E key \in CacheKeys : CacheGet(key)
    \/ \E key \in CacheKeys : \E value \in CacheValues : CachePut(key, value)
    \/ \E key \in CacheKeys : CacheRemove(key)

SpecCache == InitCache /\ [][NextCache]_vars

\* C21: the number of entries a Cache holds in memory never exceeds its max_size.
C21_SizeAtMostMaxSize ==
    max_size > 0 => Cardinality(DOMAIN cache) <= max_size

(***************************************************************************)
(* core.parallel_manager.ParallelManager.process_items: the items are cut  *)
(* into chunks, a future is submitted for every chunk, and the results are *)
(* gathered in the order as_completed yields the futures.                  *)
(***************************************************************************)
PMMaxItems == 3
PMWorkers == 2

\* what process_items does not change
nonpm == <<repoKind, repoTags, truncated, fsvars, status_dict, wvars, mvars, prevars, detvars, exvars,
           cachevars>>

\* chunk_size = max(1, len(items) // (self.max_workers * 4)) if it is None
effective_chunk_size(n, cs) ==
    IF cs = 0 THEN (IF n \div (PMWorkers * 4) > 1 THEN n \div (PMWorkers * 4) ELSE 1) ELSE cs

\* [items[i:i + chunk_size] for i in range(0, len(items), chunk_size)]
chunked_items(its, cs) ==
    [c \in 1..((Len(its) + cs - 1) \div cs) |->
        SubSeq(its, (c - 1) * cs + 1, IF c * cs < Len(its) THEN c * cs ELSE Len(its))]

\* process_func of the tests: [x + 1 for x in nums]
process_func(chunk) == [i \in 1..Len(chunk) |-> chunk[i] + 1]

PMChunks == chunked_items(pm_items, effective_chunk_size(Len(pm_items), pm_chunk_size))

\* process_items up to the end of the list comprehension that submits the futures
PMSubmit ==
    /\ pm_pc = "idle"
    /\ IF pm_items = <<>>
       THEN /\ pm_pc' = "returned"
            /\ UNCHANGED pm_futures
       ELSE /\ pm_pc' = "collect"
            /\ pm_futures' = [c \in 1..Len(PMChunks) |-> "queued"]
    /\ UNCHANGED <<nonpm, pm_items, pm_chunk_size, pm_use_threads, pm_failed, pm_results>>

\* a worker of the pool that is free takes the first call of the queue
PMStart(c) ==
    /\ c \in DOMAIN pm_futures
    /\ pm_futures[c] = "queued"
    /\ \A b \in 1..(c - 1) : pm_futures[b] # "queued"
    /\ Cardinality({b \in DOMAIN pm_futures : pm_futures[b] = "running"}) < PMWorkers
    /\ pm_futures' = [pm_futures EXCEPT ![c] = "running"]
    /\ UNCHANGED <<nonpm, pm_pc, pm_items, pm_chunk_size, pm_use_threads, pm_failed, pm_results>>

\* the call of partial_func(chunk) ends: with a result, or with an exception (in a process
\* pool also when the worker process dies)
PMFinish(c) ==
    /\ c \in DOMAIN pm_futures
    /\ pm_futures[c] = "running"
    /\ \E out \in {"done", "failed"} : pm_futures' = [pm_futures EXCEPT ![c] = out]
    /\ UNCHANGED <<nonpm, pm_pc, pm_items, pm_chunk_size, pm_use_threads, pm_failed, pm_results>>

\* one turn of the loop over as_completed(futures): a future that has finished is
\* yielded, its list is added to results, its exception is logged
PMCollect(c) ==
    /\ pm_pc = "collect"
    /\ c \in DOMAIN pm_futures
    /\ pm_futures[c] \in {"done", "failed"}
    /\ pm_results' = IF pm_futures[c] = "done" THEN pm_results \o process_func(PMChunks[c])
                     ELSE pm_results
    /\ pm_failed' = (pm_failed \/ pm_futures[c] = "failed")
    /\ pm_futures' = [pm_futures EXCEPT ![c] = "yielded"]
    /\ UNCHANGED <<nonpm, pm_pc, pm_items, pm_chunk_size, pm_use_threads>>

\* as_completed is exhausted: return results
PMReturn ==
    /\ pm_pc = "collect"
    /\ \A c \in DOMAIN pm_futures : pm_futures[c] = "yielded"
    /\ pm_pc' = "returned"
    /\ UNCHANGED <<nonpm, pm_items, pm_chunk_size, pm_use_threads, pm_futures, pm_failed,
                   pm_results>>

InitPM ==
    /\ repoKind = [r \in Repos |-> "ok"]
    /\ repoTags = [r \in Repos |-> <<>>]
    /\ InitFs
    /\ InitWorkers
    /\ InitNoMain
    /\ InitNoPre
    /\ InitNoEx
    /\ InitNoCache
    /\ pm_pc = "idle"
    /\ \E n \in 0..PMMaxItems :
          /\ pm_items = [i \in 1..n |-> i]
          /\ pm_chunk_size \in 0..(IF n = 0 THEN 1 ELSE n)
    /\ pm_use_threads \in BOOLEAN
    /\ pm_futures = <<>>
    /\ pm_failed = FALSE
    /\ pm_results = <<>>

NextPM ==
    \/ PMSubmit
    \/ \E c \in 1..PMMaxItems : PMStart(c)
    \/ \E c \in 1..PMMaxItems : PMFinish(c)
    \/ \E c \in 1..PMMaxItems : PMCollect(c)
    \/ PMReturn

SpecPM == InitPM /\ [][NextPM]_vars

\* C22: process_items returns the results in the order of the input items, whatever the
\* chunk size, the kind of pool and the order in which the chunks finish.
C22_ResultsInInputOrder ==
    (pm_pc = "returned" /\ ~pm_failed) => pm_results = process_func(pm_items)

\* the fps of S's signature that X ships as well and may have donated
DonatedFps(S, X) ==
    {fp \in DOMAIN initialSigs[S] :
        fp \in DOMAIN initialSigs[X] /\ MayDonate(funcDate[X][fp], funcDate[S][fp])}

\* C23: in the reduction of S, candi[X] is the number of fps of S's signature that X also
\* ships and for which one of the two births is NODATE or birth[X][fp] <= birth[S][fp]:
\* each such fp is counted, and appended to temp[X], exactly once.
C23_CandiCountsEachFpOnce ==
    \A S \in segmented :
        \A X \in Repos \ {S} :
            /\ candiX(S, X, DOMAIN initialSigs[S]) = Cardinality(DonatedFps(S, X))
            /\ \A fp \in DOMAIN initialSigs[S] :
                  hits(S, X, fp) = (IF fp \in DonatedFps(S, X) THEN 1 ELSE 0)

\* C24: for every tag of a repo and every data line of the tag's TagIndex, the last line
\* included, the line's fp is in the RepoSignature with the tag's index in its vers list.
C24_EveryDataLineInSignature ==
    \A R \in Repos :
        Built(R) =>
            \A i \in DOMAIN tagIndex[R] :
                \A k \in DOMAIN tagIndex[R][i] :
                    LET fp == tagIndex[R][i][k]
                    IN /\ fp \in DOMAIN initialSigs[R]
                       /\ \E j \in DOMAIN initialSigs[R][fp] : initialSigs[R][fp][j] = i - 1

\* the reduction of Y took fp from Y's entry
RemovedFrom(Y, fp) == Y \in segmented /\ fp \in DOMAIN initialSigs[Y] /\ ~InDB(Y, fp)

\* C25: an fp that several repos ship is never removed from all of them: when the
\* reduction takes it from Y's entry, a donor X that had it no later (equal births and
\* NODATE included) retains it in its own entry.
C25_DonorRetainsFp ==
    segmented = Repos =>
        \A Y \in Repos :
            \A fp \in Fps :
                RemovedFrom(Y, fp) =>
                    \E X \in Repos \ {Y} :
                        /\ fp \in DOMAIN initialSigs[X]
                        /\ MayDonate(funcDate[X][fp], funcDate[Y][fp])
                        /\ InDB(X, fp)

\* C26: a repo whose future failed because the pool broke is marked failed, and the next
\* attempt of the batch, if one of the MaxAttempts is left, submits it again.
C26_FailedRepoResubmitted ==
    [][(mpc = "attempt" /\ mpc' \in {"submit", "finish"} /\ attempt < MaxAttempts)
          => (failed_repos \ processed_repos) \subseteq toSubmit']_vars

\* C27: the lock file of a repo is removed only by the worker that created it; a worker
\* whose open(lock_file, 'x') failed because the file exists leaves it in place.
C27_LockRemovedByCreatorOnly ==
    [][\A w \in Workers :
          (pc[w] = "fe_finally" /\ pc'[w] # "fe_finally" /\ lockFile[wrepo[w]])
              => lockFile'[wrepo[w]]]_vars

\* the worker is inside update_repo_status
InUpdate(w) == pc[w] \in {"upd_set", "upd_snap", "upd_open", "upd_dump"}

\* C28: once a worker's status update for its repo has returned, status.json holds the
\* repo's latest entry whenever no update is under way: no write of another worker leaves
\* a file without the entry or with an older one (no process of the pool has died).
C28_ReturnedUpdateStaysOnDisk ==
    (~mhist.broke /\ \A v \in Workers : ~InUpdate(v)) =>
        \A w \in Workers :
            (hist[w].entry # "none" /\ pc[w] \in {"finally", "done"}) =>
                /\ statusFile # Unreadable
                /\ wrepo[w] \in DOMAIN statusFile
                /\ statusFile[wrepo[w]] = status_dict[wrun[w]][wrepo[w]]

\* the result file of the i-th tag of the repo of w
TagFileOf(w, i) == IF NoTags(w) THEN RepoNameTag(wrepo[w]) ELSE normalize_tag(Tags(w)[i])

\* C29: a TagIndex file that was left half written when its writer was interrupted is
\* never taken for an already processed tag: no worker skips its tag and counts it as
\* successful.
C29_TruncatedFileNotSkipped ==
    \A w \in Workers :
        \A i \in hist[w].skipped : TagFileOf(w, i) \notin truncated[wrepo[w]]

(***************************************************************************)
(* The contending workers again, each scheduled until its call returns: a  *)
(* process of the pool that is not killed runs process_single_repo to its  *)
(* end.                                                                    *)
(***************************************************************************)
SpecContendFair ==
    /\ InitContend
    /\ [][NextContend]_vars
    /\ \A w \in 1..ContendWorkers : WF_vars(WorkerStep(w))

\* the worker is about to leave the try block under which it created the lock file
LeavingLock(w) == pc[w] \in {"finally", "ex_finally"}

\* C30: a worker that has created the lock file of a repo comes to the end of its call on
\* every exit path (normal completion, early return, exception), and when it leaves the
\* lock file is gone, so that a later worker can create it.  A worker is called once and
\* "done" is final, so "every call that was entered ends" is "from some point on no worker
\* is inside a call".
C30_LockEventuallyRemoved ==
    /\ <>[](\A w \in Workers : pc[w] \in {"idle", "done"})
    /\ [][\A w \in Workers :
             (LeavingLock(w) /\ ~LeavingLock(w)') => ~lockFile'[wrepo[w]]]_vars

\* one worker left the lock through the exception handler, the other created the lock
\* after it and completed normally, and the lock file is gone
C30_Witness ==
    \E v, w \in Workers :
        /\ pc[v] = "done" /\ hist[v].entry = "exception" /\ ~hist[v].lockFailed
        /\ pc[w] = "done" /\ hist[w].entry = "null" /\ ~hist[w].lockFailed
        /\ ~lockFile[wrepo[w]]

====
